---- MODULE Spec2Model ----
(***************************************************************************)
(* Snapshot synchronisation engine of soloq-tracker (src/api/snapshot.js). *)
(*                                                                         *)
(* The module models one Node.js instance of the snapshot endpoint: the    *)
(* module-level lock `building`, any number of concurrent invocations of   *)
(* `handler` (each advancing from one `await` to the next), the cycle run  *)
(* by `buildSnapshot`, the four Supabase tables it writes and the upstream *)
(* Riot data it reads.  JavaScript runs one continuation at a time, so an  *)
(* action is the synchronous code between two awaits.                      *)
(*                                                                         *)
(* Environment assumptions: the store applies every read and write it is   *)
(* sent (supabase-js reports failures as values, which the code ignores);  *)
(* an exception may escape buildSnapshot at its two awaits that are        *)
(* outside the per-entity try block; every required upstream call may      *)
(* fail; time is an abstract clock that may advance between any two steps. *)
(***************************************************************************)
EXTENDS Integers, Sequences, FiniteSets, TLC

\* ---------------------------------------------------------------- bounds
NumPlayers  == 2      \* roster entries (PLAYERS has 12)
NumTriggers == 2      \* concurrent invocations of handler
MaxCycles   == 2      \* cycles started over a behaviour
MaxMatches  == 2      \* matches played upstream over a behaviour
MaxClock    == 1      \* clock ticks over a behaviour
ViewMatches == 11     \* ranked matches played before the leaderboard is read
MaxFetches  == 4      \* upstream requests of matches.js over a behaviour

\* ------------------------------------------------------ program constants
MAX_MATCHES == 10
BackfillCount == 25   \* count= of the match-id list request of backfill.js
TierStep     == 10000   \* weight of a tier in rankScore
DivisionStep == 1000    \* weight of a division in rankScore
FreshWindow == 1      \* 8 * 60 * 1000 ms, in clock ticks

PLAYERS  == 1 .. NumPlayers       \* roster index; entry i resolves to puuid i
Triggers == 1 .. NumTriggers

NoTier == "null"
NoRank == "null"

TIER_ORDER ==
  [tr \in {"IRON", "BRONZE", "SILVER", "GOLD", "PLATINUM", "EMERALD",
           "DIAMOND", "MASTER", "GRANDMASTER", "CHALLENGER"} |->
     CASE tr = "IRON" -> 0 [] tr = "BRONZE" -> 1 [] tr = "SILVER" -> 2
       [] tr = "GOLD" -> 3 [] tr = "PLATINUM" -> 4 [] tr = "EMERALD" -> 5
       [] tr = "DIAMOND" -> 6 [] tr = "MASTER" -> 7
       [] tr = "GRANDMASTER" -> 8 [] tr = "CHALLENGER" -> 9]

RANK_ORDER ==
  [rk \in {"IV", "III", "II", "I"} |->
     CASE rk = "IV" -> 0 [] rk = "III" -> 1 [] rk = "II" -> 2 [] rk = "I" -> 3]

\* rankScore with a division worth a hundred points.
rankScoreNarrow(tier, rank, lp) ==
  IF tier = NoTier THEN -1
  ELSE (IF tier \in DOMAIN TIER_ORDER THEN TIER_ORDER[tier] ELSE -1) * 10000
       + (IF rank \in DOMAIN RANK_ORDER THEN RANK_ORDER[rank] ELSE 0) * 100
       + lp

\* rankScore with 0 for an entry that has no tier.
rankScoreNoSentinel(tier, rank, lp) ==
  IF tier = NoTier THEN 0
  ELSE (IF tier \in DOMAIN TIER_ORDER THEN TIER_ORDER[tier] ELSE -1) * 10000
       + (IF rank \in DOMAIN RANK_ORDER THEN RANK_ORDER[rank] ELSE 0) * 1000
       + lp

rankScore(tier, rank, lp) ==
  IF tier = NoTier THEN -1
  ELSE (IF tier \in DOMAIN TIER_ORDER THEN TIER_ORDER[tier] ELSE -1) * 10000
       + (IF rank \in DOMAIN RANK_ORDER THEN RANK_ORDER[rank] ELSE 0) * 1000
       + lp

\* Rank entries the upstream serves in this model (tier, division, points).
Unranked == [tier |-> NoTier, rank |-> NoRank, lp |-> 0]
RankSet ==
  { Unranked,
    [tier |-> "GOLD", rank |-> "I", lp |-> 50],
    [tier |-> "PLATINUM", rank |-> "IV", lp |-> 0] }

VARIABLES
  building,          \* the module-level lock
  pc,                \* pc[t]: where invocation t of handler is suspended
  force,             \* force[t]: req.query.force === "1"
  latest,            \* latest[t]: result of t's freshness query ({} = no row)
  timedOut,          \* timedOut[t]: 25000 ms have passed since t began waiting
  resp,              \* resp[t]: the response t sent last
  path,              \* path[t]: branches of handler t went through in this run
  called,            \* called[t]: t made an upstream call in this run
  b,                 \* locals of the running buildSnapshot
  clock,             \* Date.now(), in ticks
  players,           \* table players, keyed by puuid
  latest_updated_at, \* max(players.updated_at) ({} = table empty)
  rank_history,      \* table rank_history: per puuid, its rows in order
  matches,           \* table matches, keyed by match_id
  player_matches,    \* table player_matches, keyed by (puuid, match_id)
  played,            \* upstream: matches played so far, oldest first
  cycles,            \* number of buildSnapshot calls so far
  detailCalls,       \* detailCalls[m]: upstream detail requests made for m
  milestones,        \* table milestones of the variant that records them
  mc,                \* locals of that variant's buildSnapshot
  sample,            \* rank entries handed to rankScore on their own
  score,             \* the scores rankScore gave them
  view,              \* the body data.js sent last for type=players
  matchCache,        \* matches.js: the module-level matchCache
  mq,                \* matches.js: mq[t] holds the locals of invocation t
  fetches,           \* matches.js: fetches[id], upstream requests made for id
  bf                 \* backfill.js: locals of the running handler

hvars   == <<building, pc, force, latest, timedOut, resp, path, called>>
dbvars  == <<players, latest_updated_at, rank_history, matches, player_matches>>
upvars  == <<played>>
cntvars == <<cycles, detailCalls>>
evars   == <<matchCache, mq, fetches, bf>>
pvars   == <<milestones, mc, sample, score, view, evars>>
vars    == <<hvars, b, clock, dbvars, upvars, cntvars, pvars>>

MatchIds == 1 .. MaxMatches

\* ------------------------------------------------------------- upstream
\* Participant p won match m (fixed by the upstream; both outcomes occur).
Won(p, m) == (p + m) % 2 = 0

\* championName of participant p in match m: a different character in every
\* match, so that an entry of recentMatches tells which match it is about.
Champ(p, m) == m

\* kills, deaths and assists of participant p in match m.
Kills(p, m)   == p
Deaths(p, m)  == m
Assists(p, m) == p + m

PlayedIds(p) == { k \in 1 .. Len(played) : p \in played[k] }
UpWins(p)    == Cardinality({ k \in PlayedIds(p) : Won(p, k) })
UpLosses(p)  == Cardinality({ k \in PlayedIds(p) : ~Won(p, k) })

\* The rank entries /lol/league/v4/entries/by-puuid may serve for p: any
\* rank, except that a player with ranked games on record has a solo entry.
UpRanks(p) == IF PlayedIds(p) = {} THEN RankSet ELSE RankSet \ {Unranked}

\* const solo = rankData.find(r => r.queueType === "RANKED_SOLO_5x5") and the
\* fields playerRow takes from it (tier || null, leaguePoints ?? 0, wins || 0).
SoloEntry(p, r) ==
  IF r.tier = NoTier
  THEN [tier |-> NoTier, rank |-> NoRank, lp |-> 0, wins |-> 0, losses |-> 0]
  ELSE [tier |-> r.tier, rank |-> r.rank, lp |-> r.lp,
        wins |-> UpWins(p), losses |-> UpLosses(p)]

RECURSIVE NewestFirst(_, _)
NewestFirst(p, k) ==
  IF k = 0 THEN <<>>
  ELSE IF p \in played[k] THEN <<k>> \o NewestFirst(p, k - 1)
       ELSE NewestFirst(p, k - 1)

\* /lol/match/v5/matches/by-puuid/.../ids?start=0&count=MAX_MATCHES
UpMatchIds(p) ==
  LET all == NewestFirst(p, Len(played))
  IN  SubSeq(all, 1, IF Len(all) < MAX_MATCHES THEN Len(all) ELSE MAX_MATCHES)

RECURSIVE SetToSeq(_)
SetToSeq(S) ==
  IF S = {} THEN <<>>
  ELSE LET x == CHOOSE y \in S : \A z \in S : y <= z
       IN  <<x>> \o SetToSeq(S \ {x})

\* What may come of the live-game request: a response with its status and
\* body (JSON with a gameId, JSON without one, or not JSON), a transport
\* error, or no answer within 12000 ms.
LiveOutcomes ==
  { [kind |-> "response", status |-> 200, body |-> "game"],
    [kind |-> "response", status |-> 200, body |-> "garbled"],
    [kind |-> "response", status |-> 404, body |-> "nogame"],
    [kind |-> "response", status |-> 429, body |-> "nogame"],
    [kind |-> "response", status |-> 500, body |-> "game"],
    [kind |-> "error",    status |-> 0,   body |-> "garbled"],
    [kind |-> "timeout",  status |-> 0,   body |-> "garbled"] }

NotInGame == [kind |-> "response", status |-> 404, body |-> "nogame"]

\* riotGetOpt that lets through every body but that of a 404.
riotGetOptOnly404(o) ==
  IF o.kind # "response" THEN {}
  ELSE IF o.status = 404 THEN {}
  ELSE IF o.body = "garbled" THEN {}
  ELSE {[gameId |-> o.body = "game"]}

\* riotGetOpt: the parsed body ({} stands for null).
riotGetOpt(o) ==
  IF o.kind # "response" THEN {}
  ELSE IF o.status = 404 \/ o.status >= 400 THEN {}
  ELSE IF o.body = "garbled" THEN {}
  ELSE {[gameId |-> o.body = "game"]}

\* /lol/match/v5/matches/{id}: m.info.participants, in upstream order.
UpParticipants(m) == SetToSeq(played[m])


\* ---------------------------------------------------------------- store
\* upsert(row, { onConflict: "puuid" })
UpsertRow(tbl, key, row) ==
  [k \in DOMAIN tbl \cup {key} |-> IF k = key THEN row ELSE tbl[k]]

\* upsert(row, { onConflict: "match_id" }) on matches, held as a set
SameMatch(r1, r2) == r1.match_id = r2.match_id

\* The upsert on matches leaving the table as it was.
UpsertMatchRowIgnored(tbl, row) == tbl

UpsertMatchRow(tbl, row) == { r \in tbl : ~SameMatch(r, row) } \cup {row}

\* upsert(row, { onConflict: "puuid,match_id" }) on player_matches
SamePlayerMatch(r1, r2) == r1.puuid = r2.puuid /\ r1.match_id = r2.match_id
UpsertPlayerMatchRow(tbl, row) ==
  { r \in tbl : ~SamePlayerMatch(r, row) } \cup {row}

Max(S) == CHOOSE x \in S : \A y \in S : y <= x

\* The rows of tbl for puuid p, ordered by played_at descending.
RECURSIVE ByPlayedAtDesc(_)
ByPlayedAtDesc(S) ==
  IF S = {} THEN <<>>
  ELSE LET r == CHOOSE x \in S : \A y \in S : y.played_at <= x.played_at
       IN  <<r>> \o ByPlayedAtDesc(S \ {r})

RECURSIVE Reverse(_)
Reverse(s) == IF s = <<>> THEN <<>> ELSE Reverse(Tail(s)) \o <<Head(s)>>

FirstN(s, n) == SubSeq(s, 1, IF Len(s) < n THEN Len(s) ELSE n)

\* matchesByPuuid[p] with every row of p, however many.
matchesByPuuidAll(p) ==
  ByPlayedAtDesc({ r \in player_matches : r.puuid = p })

\* matchesByPuuid[p]: of the rows in descending order of played_at, those
\* pushed while the list was shorter than MAX_MATCHES.
matchesByPuuid(p) ==
  FirstN(ByPlayedAtDesc({ r \in player_matches : r.puuid = p }), MAX_MATCHES)

\* readPlayersFromDB without the reverse().
readPlayersFromDBNoReverse ==
  LET entry(p) ==
        [puuid    |-> p,
         rankData |-> IF players[p].tier # NoTier
                      THEN <<[tier |-> players[p].tier, rank |-> players[p].rank,
                              leaguePoints |-> players[p].lp,
                              wins |-> players[p].wins, losses |-> players[p].losses]>>
                      ELSE <<>>,
         inGame   |-> players[p].in_game,
         recentMatches |->
           LET kept == matchesByPuuid(p)
           IN  [k \in 1 .. Len(kept) |->
                  [win |-> kept[k].win, champ |-> kept[k].champ]]]
      ids == SetToSeq(DOMAIN players)
  IN  [k \in 1 .. Len(ids) |-> entry(ids[k])]

\* readPlayersFromDB: one entry per players row, with its recent matches
\* (of an entry of recentMatches, win and champ are kept).
readPlayersFromDB ==
  LET entry(p) ==
        [puuid    |-> p,
         rankData |-> IF players[p].tier # NoTier
                      THEN <<[tier |-> players[p].tier, rank |-> players[p].rank,
                              leaguePoints |-> players[p].lp,
                              wins |-> players[p].wins, losses |-> players[p].losses]>>
                      ELSE <<>>,
         inGame   |-> players[p].in_game,
         recentMatches |->
           LET kept == Reverse(matchesByPuuid(p))
           IN  [k \in 1 .. Len(kept) |->
                  [win |-> kept[k].win, champ |-> kept[k].champ]]]
      ids == SetToSeq(DOMAIN players)
  IN  [k \in 1 .. Len(ids) |-> entry(ids[k])]

\* ------------------------------------------------------------ responses
NoResp == [status |-> 0, cached |-> FALSE, stale |-> FALSE, some |-> FALSE]

\* res.status(code).json({ players, updatedAt, cached, stale }); of the body
\* the flags are kept and whether players is non-empty.
Response(code, isCached, isStale) ==
  [status |-> code, cached |-> isCached, stale |-> isStale,
   some |-> (code = 200 /\ Len(readPlayersFromDB) > 0)]

\* --------------------------------------------------- buildSnapshot locals
NoSolo == [tier |-> NoTier, rank |-> NoRank, lp |-> 0, wins |-> 0, losses |-> 0]
NoPrev == [q \in {} |-> NoSolo]

\* The locals of buildSnapshot and, for the record of what the cycle did:
\* old (the players row the current entry's upsert replaced, if any),
\* upserted (puuids whose row this cycle wrote), requests (the match
\* details requested, in order, each with whether the upstream served it),
\* appended (puuids for which this cycle inserted a history row), failed
\* (roster entries whose processing ended in the per-entity catch), calls
\* (the upstream requests made for the current roster entry, in order) and
\* delayed (no upstream request has been made in this cycle since the last
\* sleep(DELAY_MS) ended).
BIdle ==
  [pc |-> "none", i |-> 0, prevByPuuid |-> NoPrev, trackedPuuids |-> {},
   now |-> 0, solo |-> NoSolo, live |-> FALSE, matchIds |-> <<>>,
   knownSet |-> {}, j |-> 0, parts |-> <<>>,
   old |-> {}, upserted |-> {}, requests |-> <<>>, appended |-> {},
   failed |-> {}, calls |-> <<>>, delayed |-> TRUE]

BStart == [BIdle EXCEPT !.pc = "prev"]

\* NextEntity going through the roster from its last entry to its first.
NextEntityBackwards(r) ==
  LET clean == [r EXCEPT !.solo = NoSolo, !.live = FALSE, !.matchIds = <<>>,
                         !.knownSet = {}, !.j = 0, !.parts = <<>>, !.old = {},
                         !.calls = <<>>]
  IN  IF r.i = 0 /\ r.pc = "prev"
      THEN [clean EXCEPT !.pc = "acc", !.i = NumPlayers]
      ELSE IF r.i > 1
           THEN [clean EXCEPT !.pc = "acc", !.i = r.i - 1]
           ELSE [clean EXCEPT !.pc = "final", !.i = 0]

\* The catch of the per-entity try, or the end of its body: next roster entry.
NextEntity(r) ==
  LET clean == [r EXCEPT !.solo = NoSolo, !.live = FALSE, !.matchIds = <<>>,
                         !.knownSet = {}, !.j = 0, !.parts = <<>>, !.old = {},
                         !.calls = <<>>]
  IN  IF r.i < NumPlayers
      THEN [clean EXCEPT !.pc = "acc", !.i = r.i + 1]
      ELSE [clean EXCEPT !.pc = "final", !.i = 0]

\* catch (err) { console.warn(...) }  of the per-entity try.
Caught(r) == NextEntity([r EXCEPT !.failed = r.failed \cup {r.i}])

\* for (const matchId of matchIds) { if (knownSet.has(matchId)) continue; ...
RECURSIVE AdvanceMatch(_)
AdvanceMatch(r) ==
  IF r.j > Len(r.matchIds) THEN NextEntity(r)
  ELSE IF r.matchIds[r.j] \in r.knownSet
       THEN AdvanceMatch([r EXCEPT !.j = r.j + 1])
       ELSE [r EXCEPT !.pc = "detail"]

\* for (const part of m.info.participants) { if (!trackedPuuids.has(..)) continue;
RECURSIVE AdvancePart(_)
AdvancePart(r) ==
  IF r.parts = <<>> THEN AdvanceMatch([r EXCEPT !.j = r.j + 1])
  ELSE IF Head(r.parts) \notin r.trackedPuuids
       THEN AdvancePart([r EXCEPT !.parts = Tail(r.parts)])
       ELSE [r EXCEPT !.pc = "pm"]

\* playerRow, from the rank entry and the live-game answer.
PlayerRow(r) ==
  [tier |-> r.solo.tier, rank |-> r.solo.rank, lp |-> r.solo.lp,
   wins |-> r.solo.wins, losses |-> r.solo.losses, in_game |-> r.live]

NewScore(r)  == rankScore(r.solo.tier, r.solo.rank, r.solo.lp)
\* prevScore with the unranked score -1 for an entity seen for the first time.
PrevScoreUnranked(r) ==
  IF r.i \in DOMAIN r.prevByPuuid
  THEN rankScore(r.prevByPuuid[r.i].tier, r.prevByPuuid[r.i].rank,
                 r.prevByPuuid[r.i].lp)
  ELSE -1

PrevScore(r) ==
  IF r.i \in DOMAIN r.prevByPuuid
  THEN rankScore(r.prevByPuuid[r.i].tier, r.prevByPuuid[r.i].rank,
                 r.prevByPuuid[r.i].lp)
  ELSE -2

\* rankChanged as in the variant that writes a history row every cycle.
rankChangedAlways(r) == TRUE

rankChanged(r) == NewScore(r) # PrevScore(r)

\* The rank_history row: tier, rank, lp and score of playerRow.
HistoryRow(r) ==
  [tier |-> r.solo.tier, rank |-> r.solo.rank, lp |-> r.solo.lp,
   score |-> NewScore(r)]

\* hasNewGames by the rule of the file's header comment ("only fetched if
\* rank changed").
hasNewGamesOrRankChanged(r) ==
  \/ rankChanged(r)
  \/ /\ r.i \in DOMAIN r.prevByPuuid
     /\ (r.solo.wins + r.solo.losses)
          > (r.prevByPuuid[r.i].wins + r.prevByPuuid[r.i].losses)

\* hasNewGames holding in every cycle.
hasNewGamesAlways(r) == TRUE

hasNewGames(r) ==
  LET prevWins   == IF r.i \in DOMAIN r.prevByPuuid
                    THEN r.prevByPuuid[r.i].wins ELSE r.solo.wins
      prevLosses == IF r.i \in DOMAIN r.prevByPuuid
                    THEN r.prevByPuuid[r.i].losses ELSE r.solo.losses
      gamesPlayed == (r.solo.wins + r.solo.losses) - (prevWins + prevLosses)
  IN  gamesPlayed > 0

\* AfterHistory asking for the match list in every cycle.
AfterHistoryAlwaysList(r) == [r EXCEPT !.pc = "mlist"]

\* After the history step: the match list is next only if hasNewGames.
AfterHistory(r) ==
  IF hasNewGames(r) THEN [r EXCEPT !.pc = "mlist"] ELSE NextEntity(r)


\* riotGet or riotGetOpt is called for kind; `await sleep(DELAY_MS)` follows
\* when the call returns (rests) and is skipped when it throws.
Request(r, kind, rests) ==
  [r EXCEPT !.calls = Append(r.calls, kind), !.delayed = rests]

\* ================================================================ handler
Builder(t) == pc[t] = "build"

Say(t, r) == resp' = [resp EXCEPT ![t] = r]

\* LockCheck without the test of `building`.
LockCheckNoTest(t) ==
  /\ building' = TRUE
  /\ pc' = [pc EXCEPT ![t] = "build"]
  /\ b' = BStart
  /\ cycles' = cycles + 1
  /\ path' = [path EXCEPT ![t] = {"build"}]
  /\ UNCHANGED timedOut

\* if (building) { wait ... }   building = true; try { buildSnapshot ...
LockCheck(t) ==
  IF building
  THEN /\ pc' = [pc EXCEPT ![t] = "waiting"]
       /\ timedOut' = [timedOut EXCEPT ![t] = FALSE]
       /\ path' = [path EXCEPT ![t] = {"wait"}]
       /\ UNCHANGED <<building, b, cycles>>
  ELSE /\ building' = TRUE
       /\ pc' = [pc EXCEPT ![t] = "build"]
       /\ b' = BStart
       /\ cycles' = cycles + 1
       /\ path' = [path EXCEPT ![t] = {"build"}]
       /\ UNCHANGED timedOut

\* A request arrives.  A forced one reaches the lock check with no await in
\* between; an unforced one sends the freshness query first.
Arrive(t, f) ==
  /\ pc[t] = "idle"
  /\ cycles < MaxCycles
  /\ force' = [force EXCEPT ![t] = f]
  /\ called' = [called EXCEPT ![t] = FALSE]
  /\ resp' = [resp EXCEPT ![t] = NoResp]
  /\ IF f
     THEN LockCheck(t)
     ELSE /\ pc' = [pc EXCEPT ![t] = "fresh_query"]
          /\ path' = [path EXCEPT ![t] = {}]
          /\ UNCHANGED <<building, b, cycles, timedOut>>
  /\ UNCHANGED <<latest, clock, dbvars, upvars, pvars, detailCalls>>

\* The store evaluates select("updated_at").order(desc).limit(1).single().
FreshnessQuery(t) ==
  /\ pc[t] = "fresh_query"
  /\ latest' = [latest EXCEPT ![t] = latest_updated_at]
  /\ pc' = [pc EXCEPT ![t] = "fresh_wait"]
  /\ UNCHANGED <<building, force, timedOut, resp, path, called, b, clock,
                 dbvars, upvars, pvars, cntvars>>

\* IsFresh with the age comparison the wrong way round.
IsFreshOlder(t) == latest[t] # {} /\ \A u \in latest[t] : clock - u >= FreshWindow

IsFresh(t) == latest[t] # {} /\ \A u \in latest[t] : clock - u < FreshWindow

\* The query resolves: either still fresh (answer from the store) or on to
\* the lock check, with no await between the age test and the lock check.
FreshnessResume(t) ==
  /\ pc[t] = "fresh_wait"
  /\ IF IsFresh(t)
     THEN /\ pc' = [pc EXCEPT ![t] = "fresh_read"]
          /\ path' = [path EXCEPT ![t] = {"fresh"}]
          /\ UNCHANGED <<building, b, cycles, timedOut>>
     ELSE LockCheck(t)
  /\ latest' = [latest EXCEPT ![t] = {}]
  /\ UNCHANGED <<force, resp, called, clock, dbvars, upvars, pvars, detailCalls>>

\* return res.status(200).json({ players, updatedAt: latest, cached: true })
FreshRespond(t) ==
  /\ pc[t] = "fresh_read"
  /\ Say(t, Response(200, TRUE, FALSE))
  /\ pc' = [pc EXCEPT ![t] = "idle"]
  /\ UNCHANGED <<building, force, latest, timedOut, path, called, b, clock,
                 dbvars, upvars, pvars, cntvars>>

\* Date.now() - t0 reaches 25000 while t is in the wait loop.
WaitTimeout(t) ==
  /\ pc[t] = "waiting"
  /\ ~timedOut[t]
  /\ timedOut' = [timedOut EXCEPT ![t] = TRUE]
  /\ UNCHANGED <<building, pc, force, latest, resp, path, called, b, clock,
                 dbvars, upvars, pvars, cntvars>>

\* WaitExit where a waiter that sees the flag clear runs a cycle of its own.
WaitExitThenBuild(t) ==
  /\ pc[t] = "waiting"
  /\ ~building \/ timedOut[t]
  /\ timedOut' = [timedOut EXCEPT ![t] = FALSE]
  /\ IF building
     THEN /\ pc' = [pc EXCEPT ![t] = "wait_read"]
          /\ UNCHANGED <<building, path, b, cycles>>
     ELSE /\ building' = TRUE
          /\ pc' = [pc EXCEPT ![t] = "build"]
          /\ b' = BStart
          /\ cycles' = cycles + 1
          /\ path' = [path EXCEPT ![t] = {"wait", "build"}]
  /\ UNCHANGED <<force, latest, resp, called, clock, dbvars, upvars, pvars, detailCalls>>

\* while (building && Date.now() - t0 < 25000) await sleep(400);  -- loop exit
WaitExit(t) ==
  /\ pc[t] = "waiting"
  /\ ~building \/ timedOut[t]
  /\ pc' = [pc EXCEPT ![t] = "wait_read"]
  /\ timedOut' = [timedOut EXCEPT ![t] = FALSE]
  /\ UNCHANGED <<building, force, latest, resp, path, called, b, clock,
                 dbvars, upvars, pvars, cntvars>>

\* The waiting path answering as if it had built the data itself.
WaitRespondUncached(t) ==
  /\ pc[t] = "wait_read"
  /\ Say(t, Response(200, FALSE, FALSE))
  /\ pc' = [pc EXCEPT ![t] = "idle"]
  /\ UNCHANGED <<building, force, latest, timedOut, path, called, b, clock,
                 dbvars, upvars, pvars, cntvars>>

\* return res.status(200).json({ players, updatedAt: Date.now(), cached: true })
WaitRespond(t) ==
  /\ pc[t] = "wait_read"
  /\ Say(t, Response(200, TRUE, FALSE))
  /\ pc' = [pc EXCEPT ![t] = "idle"]
  /\ UNCHANGED <<building, force, latest, timedOut, path, called, b, clock,
                 dbvars, upvars, pvars, cntvars>>

\* Fallback without the finally block.
FallbackKeepsLock(t) ==
  /\ pc[t] = "fallback"
  /\ IF Len(readPlayersFromDB) > 0
     THEN Say(t, Response(200, TRUE, TRUE))
     ELSE Say(t, Response(500, FALSE, FALSE))
  /\ pc' = [pc EXCEPT ![t] = "idle"]
  /\ UNCHANGED <<building, force, latest, timedOut, path, called, b, clock,
                 dbvars, upvars, pvars, cntvars>>

\* Fallback that reports the error whatever is persisted.
FallbackAlwaysError(t) ==
  /\ pc[t] = "fallback"
  /\ Say(t, Response(500, FALSE, FALSE))
  /\ building' = FALSE
  /\ pc' = [pc EXCEPT ![t] = "idle"]
  /\ UNCHANGED <<force, latest, timedOut, path, called, b, clock, dbvars,
                 upvars, pvars, cntvars>>

\* catch (e) { players = await readPlayersFromDB(...); ... } finally { ... }
Fallback(t) ==
  /\ pc[t] = "fallback"
  /\ IF Len(readPlayersFromDB) > 0
     THEN Say(t, Response(200, TRUE, TRUE))
     ELSE Say(t, Response(500, FALSE, FALSE))
  /\ building' = FALSE
  /\ pc' = [pc EXCEPT ![t] = "idle"]
  /\ UNCHANGED <<force, latest, timedOut, path, called, b, clock, dbvars,
                 upvars, pvars, cntvars>>

\* Fatal with no catch block: the exception ends the invocation.
FatalUnhandled(t) ==
  /\ pc' = [pc EXCEPT ![t] = "crashed"]
  /\ path' = [path EXCEPT ![t] = path[t] \cup {"fallback"}]
  /\ b' = BIdle
  /\ UNCHANGED <<building, force, latest, timedOut, resp, called>>

\* An exception leaves buildSnapshot: control reaches the catch block.
Fatal(t) ==
  /\ pc' = [pc EXCEPT ![t] = "fallback"]
  /\ path' = [path EXCEPT ![t] = path[t] \cup {"fallback"}]
  /\ b' = BIdle
  /\ UNCHANGED <<building, force, latest, timedOut, resp, called>>

\* ========================================================== buildSnapshot
\* const { data: prevPlayers } = await supabase.from("players").select(...)
LoadPrev(t, ok) ==
  /\ Builder(t) /\ b.pc = "prev"
  /\ IF ok
     THEN /\ b' = NextEntity([b EXCEPT
                   !.prevByPuuid = [q \in DOMAIN players |->
                                      [tier |-> players[q].tier, rank |-> players[q].rank,
                                       lp |-> players[q].lp, wins |-> players[q].wins,
                                       losses |-> players[q].losses]],
                   !.now = clock])
          /\ UNCHANGED hvars
     ELSE Fatal(t)
  /\ UNCHANGED <<clock, dbvars, upvars, pvars, cntvars>>

Calls(t) == called' = [called EXCEPT ![t] = TRUE]
hrest == <<building, pc, force, latest, timedOut, resp, path>>

\* 1. Account: riotGet(.../accounts/by-riot-id/name/tag)
CallAccount(t, ok) ==
  /\ Builder(t) /\ b.pc = "acc"
  /\ Calls(t)
  /\ LET r == Request(b, "account", ok)
     IN  b' = IF ok
              THEN [r EXCEPT !.pc = "sum",
                             !.trackedPuuids = b.trackedPuuids \cup {b.i}]
              ELSE Caught(r)
  /\ UNCHANGED <<hrest, clock, dbvars, upvars, pvars, cntvars>>

\* CallSummoner outside the per-entity try: its failure leaves buildSnapshot.
CallSummonerThrows(t, ok) ==
  /\ Builder(t) /\ b.pc = "sum"
  /\ IF ok
     THEN /\ Calls(t)
          /\ b' = [Request(b, "summoner", TRUE) EXCEPT !.pc = "rank"]
          /\ UNCHANGED hrest
     ELSE Fatal(t)
  /\ UNCHANGED <<clock, dbvars, upvars, pvars, cntvars>>

\* 2. Summoner: riotGet(.../summoners/by-puuid/puuid)
CallSummoner(t, ok) ==
  /\ Builder(t) /\ b.pc = "sum"
  /\ Calls(t)
  /\ LET r == Request(b, "summoner", ok)
     IN  b' = IF ok THEN [r EXCEPT !.pc = "rank"] ELSE Caught(r)
  /\ UNCHANGED <<hrest, clock, dbvars, upvars, pvars, cntvars>>

\* 3. Rank: riotGet(.../entries/by-puuid/puuid), then the solo entry of it
CallRank(t, ok, r) ==
  /\ Builder(t) /\ b.pc = "rank"
  /\ Calls(t)
  /\ LET c == Request(b, "rank", ok)
     IN  b' = IF ok THEN [c EXCEPT !.pc = "live", !.solo = SoloEntry(b.i, r)]
              ELSE Caught(c)
  /\ UNCHANGED <<hrest, clock, dbvars, upvars, pvars, cntvars>>

\* 4. Live game: riotGetOpt(...) resolves null on any failure;
\* in_game is !!(live?.gameId)
CallLive(t, o) ==
  /\ Builder(t) /\ b.pc = "live"
  /\ Calls(t)
  /\ b' = [Request(b, "live", TRUE) EXCEPT
            !.pc = "upsert",
            !.live = (\E x \in riotGetOpt(o) : x.gameId)]
  /\ UNCHANGED <<hrest, clock, dbvars, upvars, pvars, cntvars>>

\* await supabase.from("players").upsert(playerRow, { onConflict: "puuid" })
UpsertPlayer(t) ==
  /\ Builder(t) /\ b.pc = "upsert"
  /\ players' = UpsertRow(players, b.i, PlayerRow(b))
  /\ latest_updated_at' = {Max(latest_updated_at \cup {b.now})}
  /\ LET r == [b EXCEPT !.old = IF b.i \in DOMAIN players
                                 THEN {players[b.i]} ELSE {},
                         !.upserted = b.upserted \cup {b.i}]
     IN  b' = IF rankChanged(r) THEN [r EXCEPT !.pc = "hist"] ELSE AfterHistory(r)
  /\ UNCHANGED <<hvars, clock, rank_history, matches, player_matches, upvars, pvars,
                 cntvars>>

\* if (rankChanged) await supabase.from("rank_history").insert({...})
InsertHistory(t) ==
  /\ Builder(t) /\ b.pc = "hist"
  /\ rank_history' = [rank_history EXCEPT ![b.i] = Append(@, HistoryRow(b))]
  /\ b' = AfterHistory([b EXCEPT !.appended = b.appended \cup {b.i}])
  /\ UNCHANGED <<hvars, clock, players, latest_updated_at, matches,
                 player_matches, upvars, pvars, cntvars>>

\* 5. Match list: riotGet(.../matches/by-puuid/puuid/ids?...)
CallMatchList(t, ok) ==
  /\ Builder(t) /\ b.pc = "mlist"
  /\ Calls(t)
  /\ LET r == Request(b, "list", ok)
     IN  b' = IF ok THEN [r EXCEPT !.pc = "known", !.matchIds = UpMatchIds(b.i)]
              ELSE Caught(r)
  /\ UNCHANGED <<hrest, clock, dbvars, upvars, pvars, cntvars>>

\* QueryKnown with an answer that names no stored match.
QueryKnownNone(t) ==
  /\ Builder(t) /\ b.pc = "known"
  /\ b' = AdvanceMatch([b EXCEPT !.knownSet = {}, !.j = 1])
  /\ UNCHANGED <<hvars, clock, dbvars, upvars, pvars, cntvars>>

\* supabase.from("matches").select("match_id").in("match_id", matchIds)
QueryKnown(t) ==
  /\ Builder(t) /\ b.pc = "known"
  /\ b' = AdvanceMatch([b EXCEPT
            !.knownSet = { r.match_id : r \in
                           { x \in matches : \E k \in 1 .. Len(b.matchIds) :
                                               b.matchIds[k] = x.match_id } },
            !.j = 1])
  /\ UNCHANGED <<hvars, clock, dbvars, upvars, pvars, cntvars>>

\* const m = await riotGet(ROUTING, `/lol/match/v5/matches/${matchId}`)
CallDetail(t, ok) ==
  /\ Builder(t) /\ b.pc = "detail"
  /\ Calls(t)
  /\ detailCalls' = [detailCalls EXCEPT ![b.matchIds[b.j]] = @ + 1]
  /\ LET r == [Request(b, "detail", ok) EXCEPT !.requests =
                   Append(b.requests, [id |-> b.matchIds[b.j], ok |-> ok])]
     IN  b' = IF ok THEN [r EXCEPT !.pc = "mstore"]
              ELSE AdvanceMatch([r EXCEPT !.j = b.j + 1])
  /\ UNCHANGED <<hrest, clock, dbvars, upvars, pvars, cycles>>

\* The participant map stored with a match.
MatchData(m) ==
  [q \in played[m] |-> [win |-> Won(q, m), champ |-> Champ(q, m),
                         k |-> Kills(q, m), d |-> Deaths(q, m),
                         a |-> Assists(q, m)]]

\* await supabase.from("matches").upsert({...}, { onConflict: "match_id" })
UpsertMatch(t) ==
  /\ Builder(t) /\ b.pc = "mstore"
  /\ LET m == b.matchIds[b.j]
     IN  /\ matches' = UpsertMatchRow(matches,
                                      [match_id |-> m, data |-> MatchData(m)])
         /\ b' = AdvancePart([b EXCEPT !.parts = UpParticipants(m)])
  /\ UNCHANGED <<hvars, clock, players, latest_updated_at, rank_history,
                 player_matches, upvars, pvars, cntvars>>

\* await supabase.from("player_matches").upsert({...}, "puuid,match_id")
UpsertPlayerMatch(t) ==
  /\ Builder(t) /\ b.pc = "pm"
  /\ LET m == b.matchIds[b.j]
         q == Head(b.parts)
     IN  /\ player_matches' =
              UpsertPlayerMatchRow(player_matches,
                        [puuid |-> q, match_id |-> m, win |-> Won(q, m),
                         champ |-> Champ(q, m), kills |-> Kills(q, m),
                         deaths |-> Deaths(q, m), assists |-> Assists(q, m),
                         played_at |-> m])
         /\ b' = AdvancePart([b EXCEPT !.parts = Tail(b.parts)])
  /\ UNCHANGED <<hvars, clock, players, latest_updated_at, rank_history,
                 matches, upvars, pvars, cntvars>>

\* return await readPlayersFromDB(supabase);  then the handler answers
\* cached: false and the finally block releases the lock.
Finish(t, ok) ==
  /\ Builder(t) /\ b.pc = "final"
  /\ IF ok
     THEN /\ Say(t, Response(200, FALSE, FALSE))
          /\ building' = FALSE
          /\ pc' = [pc EXCEPT ![t] = "idle"]
          /\ b' = BIdle
          /\ UNCHANGED <<force, latest, timedOut, path, called>>
     ELSE Fatal(t)
  /\ UNCHANGED <<clock, dbvars, upvars, pvars, cntvars>>

\* ============================================================ environment
Tick ==
  /\ clock < MaxClock
  /\ clock' = clock + 1
  /\ UNCHANGED <<hvars, b, dbvars, upvars, pvars, cntvars>>

\* A ranked match is played upstream by the roster members in S.
PlayMatch(S) ==
  /\ Len(played) < MaxMatches
  /\ played' = Append(played, S)
  /\ UNCHANGED <<hvars, b, clock, dbvars, cntvars, pvars>>

\* ========================================================= specifications
HandlersIdle ==
  /\ building = FALSE
  /\ pc = [t \in Triggers |-> "idle"]
  /\ force = [t \in Triggers |-> FALSE]
  /\ path = [t \in Triggers |-> {}]
  /\ b = BIdle
  /\ cycles = 0

HandlersFresh ==
  /\ latest = [t \in Triggers |-> {}]
  /\ timedOut = [t \in Triggers |-> FALSE]
  /\ resp = [t \in Triggers |-> NoResp]
  /\ called = [t \in Triggers |-> FALSE]
  /\ detailCalls = [m \in MatchIds |-> 0]

StoreEmpty ==
  /\ clock = 0
  /\ players = NoPrev
  /\ latest_updated_at = {}
  /\ rank_history = [p \in PLAYERS |-> <<>>]
  /\ matches = {}
  /\ player_matches = {}
  /\ played = <<>>

\* Nothing of the milestone-recording variant runs, and rankScore is not
\* being applied on its own.
\* mc holds the locals of that variant's buildSnapshot (prevScores, the
\* roster index i, the position pc, the rank entry of the current roster
\* entry) and, for the record of what the cycle did, reconciled (the puuids
\* whose row this cycle wrote) and before (the number of milestones rows
\* when the cycle began).
NoScores == [q \in {} |-> 0]
MIdle ==
  [pc |-> "none", i |-> 0, prevScores |-> NoScores, solo |-> NoSolo,
   reconciled |-> {}, before |-> 0]

\* matches.js has not been called in this instance and backfill.js is not
\* running.  mq[t] holds requested, missing, the index k into missing and the
\* body sent (result); bf holds the index i into TARGETS, matchIds, the
\* index j into it and, for the record of what the run did: lists (the id
\* list fetched for each target), fetched (the ids whose detail it
\* requested, in order) and failed (an upstream call of the run threw).
MatchTriggers == 1 .. NumTriggers
MqIdle == [pc |-> "idle", requested |-> <<>>, missing |-> <<>>, k |-> 0,
           result |-> <<>>]
\* The locals of backfill.js and, for the record of what the run did: lists
\* (the id list fetched for each target), fetched (the ids whose details
\* were requested, in order), failed (an upstream call failed) and before
\* (the ids stored in matches when the run began).
BfIdle == [pc |-> "none", i |-> 0, matchIds |-> <<>>, j |-> 0,
           lists |-> [p \in PLAYERS |-> <<>>], fetched |-> <<>>,
           failed |-> FALSE, before |-> {}]

EndpointsIdle ==
  /\ matchCache = <<>>
  /\ mq = [t \in MatchTriggers |-> MqIdle]
  /\ fetches = [m \in {} |-> 0]
  /\ bf = BfIdle

\* data.js has sent nothing yet.
NoView == [status |-> 0, players |-> <<>>, cached |-> FALSE]

OthersIdle ==
  /\ milestones = <<>>
  /\ mc = MIdle
  /\ sample = <<>>
  /\ score = <<>>
  /\ view = NoView
  /\ EndpointsIdle

\* The module has just been loaded and nothing has been persisted yet.
Init == HandlersIdle /\ HandlersFresh /\ StoreEmpty /\ OthersIdle

\* What an earlier cycle left when only roster entry 1 could be resolved,
\* one window ago, the roster having played one match together since.
SeedRow ==
  [tier |-> "GOLD", rank |-> "I", lp |-> 50, wins |-> 0, losses |-> 0,
   in_game |-> FALSE]

StoreSeeded ==
  /\ clock = FreshWindow
  /\ players = [q \in {1} |-> SeedRow]
  /\ latest_updated_at = {0}
  /\ rank_history = [p \in PLAYERS |->
                       IF p = 1
                       THEN <<[tier |-> "GOLD", rank |-> "I", lp |-> 50,
                               score |-> rankScore("GOLD", "I", 50)]>>
                       ELSE <<>>]
  /\ matches = {}
  /\ player_matches = {}
  /\ played = <<PLAYERS>>

\* Two requests have arrived in the same tick, 1 before 2, with no cycle
\* running and the persisted data stale (or absent): each has run up to its
\* first await.
InitTwo ==
  /\ HandlersFresh /\ OthersIdle
  /\ StoreEmpty \/ StoreSeeded
  /\ \E f1, f2 \in BOOLEAN :
       /\ force = [t \in Triggers |-> (t = 1 /\ f1) \/ (t = 2 /\ f2)]
       /\ pc = [t \in Triggers |->
                  IF t = 1 THEN (IF f1 THEN "build" ELSE "fresh_query")
                  ELSE IF t = 2
                       THEN (IF ~f2 THEN "fresh_query"
                             ELSE IF f1 THEN "waiting" ELSE "build")
                       ELSE "idle"]
       /\ path = [t \in Triggers |->
                    IF t = 1 THEN (IF f1 THEN {"build"} ELSE {})
                    ELSE IF t = 2
                         THEN (IF ~f2 THEN {}
                               ELSE IF f1 THEN {"wait"} ELSE {"build"})
                         ELSE {}]
       /\ building = (f1 \/ f2)
       /\ b = IF f1 \/ f2 THEN BStart ELSE BIdle
       /\ cycles = IF f1 \/ f2 THEN 1 ELSE 0

\* The continuations of an invocation that has arrived.
HandlerResume(t) ==
  \/ FreshnessQuery(t)
  \/ FreshnessResume(t)
  \/ FreshRespond(t)
  \/ WaitTimeout(t)
  \/ WaitExit(t)
  \/ WaitRespond(t)
  \/ Fallback(t)

HandlerStep(t) ==
  \/ \E f \in BOOLEAN : Arrive(t, f)
  \/ HandlerResume(t)

\* The steps of the cycle run by t; Ranks and Lives are the answers the
\* upstream may give to the rank and the live-game call.
CycleStep(t, Ranks, Lives) ==
  \/ \E ok \in BOOLEAN : LoadPrev(t, ok)
  \/ \E ok \in BOOLEAN : CallAccount(t, ok)
  \/ \E ok \in BOOLEAN : CallSummoner(t, ok)
  \/ CallRank(t, FALSE, Unranked)
  \/ \E r \in Ranks \cap UpRanks(b.i) : CallRank(t, TRUE, r)
  \/ \E o \in Lives : CallLive(t, o)
  \/ UpsertPlayer(t)
  \/ InsertHistory(t)
  \/ \E ok \in BOOLEAN : CallMatchList(t, ok)
  \/ QueryKnown(t)
  \/ \E ok \in BOOLEAN : CallDetail(t, ok)
  \/ UpsertMatch(t)
  \/ UpsertPlayerMatch(t)
  \/ \E ok \in BOOLEAN : Finish(t, ok)

\* Concurrent invocations against an upstream with steady ranks, where the
\* roster members play their ranked matches together.
QuietRanks == { [tier |-> "GOLD", rank |-> "I", lp |-> 50] }

Next ==
  \/ \E t \in Triggers : HandlerStep(t)
  \/ \E t \in Triggers : CycleStep(t, QuietRanks, {NotInGame})
  \/ Tick
  \/ PlayMatch(PLAYERS)

Spec == Init /\ [][Next]_vars

\* Exactly two requests, arriving together (no third one arrives).
NextTwo ==
  \/ \E t \in Triggers : HandlerResume(t)
  \/ \E t \in Triggers : CycleStep(t, QuietRanks, {NotInGame})
  \/ Tick
  \/ PlayMatch(PLAYERS)

SpecTwo == InitTwo /\ [][NextTwo]_vars

\* The same, with every continuation that is ready eventually run: Node.js
\* runs each resolved await, every upstream call settles (riotGet and
\* riotGetOpt time out after 12000 ms) and Date.now() advances.
NextLive ==
  \/ \E t \in Triggers : HandlerResume(t)
  \/ \E t \in Triggers : CycleStep(t, QuietRanks, {NotInGame})
  \/ Tick

SpecLive ==
  /\ InitTwo /\ [][NextLive]_vars
  /\ \A t \in Triggers : WF_vars(HandlerResume(t))
  /\ \A t \in Triggers : WF_vars(CycleStep(t, QuietRanks, {NotInGame}))

\* One invocation at a time (nothing is ever found running) against an
\* upstream whose ranks, live games and matches change freely.
HandlerStepOne ==
  \/ \E f \in BOOLEAN : Arrive(1, f)
  \/ FreshnessQuery(1)
  \/ FreshnessResume(1)
  \/ FreshRespond(1)
  \/ Fallback(1)

NextCycle ==
  \/ HandlerStepOne
  \/ CycleStep(1, RankSet, LiveOutcomes)
  \/ Tick
  \/ \E S \in (SUBSET PLAYERS) \ {{}} : PlayMatch(S)

SpecCycle == Init /\ [][NextCycle]_vars

\* Both roster entries were persisted by an earlier cycle, one window ago,
\* before either had played a ranked match.
StoreBoth ==
  /\ clock = FreshWindow
  /\ players = [q \in PLAYERS |-> SeedRow]
  /\ latest_updated_at = {0}
  /\ rank_history = [p \in PLAYERS |->
                       <<[tier |-> "GOLD", rank |-> "I", lp |-> 50,
                          score |-> rankScore("GOLD", "I", 50)]>>]
  /\ matches = {}
  /\ player_matches = {}
  /\ played = <<>>

InitBoth == HandlersIdle /\ HandlersFresh /\ StoreBoth /\ OthersIdle

\* One invocation at a time from there, while the roster members play ranked
\* matches alone or together and keep or change their rank.
NextBoth ==
  \/ HandlerStepOne
  \/ CycleStep(1, RankSet \ {Unranked}, {NotInGame})
  \/ \E S \in (SUBSET PLAYERS) \ {{}} : PlayMatch(S)

SpecBoth == InitBoth /\ [][NextBoth]_vars

\* ---- forced cycles one after the other, the upstream recovering in time
\* An upstream call or a store read may fail in any cycle but the last one.
MayFail == cycles < MaxCycles

RetryCycle ==
  \/ \E ok \in BOOLEAN : (ok \/ MayFail) /\ LoadPrev(1, ok)
  \/ \E ok \in BOOLEAN : (ok \/ MayFail) /\ CallAccount(1, ok)
  \/ \E ok \in BOOLEAN : (ok \/ MayFail) /\ CallSummoner(1, ok)
  \/ MayFail /\ CallRank(1, FALSE, Unranked)
  \/ \E r \in QuietRanks : CallRank(1, TRUE, r)
  \/ CallLive(1, NotInGame)
  \/ UpsertPlayer(1)
  \/ \E ok \in BOOLEAN : (ok \/ MayFail) /\ CallMatchList(1, ok)
  \/ QueryKnown(1)
  \/ \E ok \in BOOLEAN : (ok \/ MayFail) /\ CallDetail(1, ok)
  \/ UpsertMatch(1)
  \/ UpsertPlayerMatch(1)
  \/ \E ok \in BOOLEAN : (ok \/ MayFail) /\ Finish(1, ok)

RetryTrigger ==
  \/ Arrive(1, TRUE)
  \/ Fallback(1)

NextRetry ==
  \/ RetryTrigger
  \/ RetryCycle
  \/ \E S \in (SUBSET PLAYERS) \ {{}} : PlayMatch(S)

\* Forced requests keep arriving while the bound allows, and every await of
\* the cycle settles.
SpecRetry ==
  /\ InitBoth /\ [][NextRetry]_vars
  /\ WF_vars(RetryTrigger) /\ WF_vars(RetryCycle)

\* ---- the variant of buildSnapshot that records milestones
\* Rank entries the upstream serves to that variant.
MilestoneRanks ==
  { Unranked,
    [tier |-> "IRON", rank |-> "IV", lp |-> 0],
    [tier |-> "IRON", rank |-> "IV", lp |-> 50],
    [tier |-> "GOLD", rank |-> "II", lp |-> 50],
    [tier |-> "GOLD", rank |-> "I", lp |-> 50],
    [tier |-> "PLATINUM", rank |-> "IV", lp |-> 0] }

\* A players row holding rank entry r (no games, not in a game).
RowOf(r) ==
  [tier |-> r.tier, rank |-> r.rank, lp |-> r.lp, wins |-> 0, losses |-> 0,
   in_game |-> FALSE]

Event(type, actor, target) ==
  [type |-> type, actor_puuid |-> actor, target_puuid |-> target]

\* detectMilestones deciding by the score alone.
detectMilestonesByScore(puuid, prevScore, newScore) ==
  IF prevScore = {} \/ prevScore = {newScore} THEN <<>>
  ELSE LET prev == CHOOSE x \in prevScore : TRUE
       IN  IF newScore > prev /\ newScore > 0
           THEN <<Event("promoted", puuid, 0)>>
           ELSE IF newScore < prev /\ prev > 0
                THEN <<Event("demoted", puuid, 0)>>
                ELSE <<>>

\* detectMilestones: the rows it inserts into milestones; prevScore is {}
\* when prevScores has no entry for puuid (undefined).
detectMilestones(puuid, prevScore, newScore) ==
  IF prevScore = {} \/ prevScore = {newScore} THEN <<>>
  ELSE LET prev == CHOOSE x \in prevScore : TRUE
           prevTierScore == prev \div 10000
           newTierScore  == newScore \div 10000
       IN  IF newTierScore > prevTierScore /\ newScore > 0
           THEN <<Event("promoted", puuid, 0)>>
           ELSE IF newTierScore < prevTierScore /\ prev > 0
                THEN <<Event("demoted", puuid, 0)>>
                ELSE <<>>

\* The pairs (a, b), a # b, in the order of the two loops over puuids.
RECURSIVE PairsFrom(_, _)
PairsFrom(as, bs) ==
  IF as = <<>> THEN <<>>
  ELSE SelectSeq([k \in 1 .. Len(bs) |-> <<Head(as), bs[k]>>],
                 LAMBDA pr : pr[1] # pr[2])
       \o PairsFrom(Tail(as), bs)

\* detectSurpassedMilestones comparing the new scores alone.
detectSurpassedByNewScores(prevScores) ==
  LET puuids == SetToSeq(DOMAIN players)
      newScores == [q \in DOMAIN players |->
                      rankScore(players[q].tier, players[q].rank, players[q].lp)]
      hit(pr) == /\ newScores[pr[1]] > newScores[pr[2]]
                 /\ newScores[pr[1]] > 0
      hits == SelectSeq(PairsFrom(puuids, puuids), hit)
  IN  [k \in 1 .. Len(hits) |-> Event("surpassed", hits[k][1], hits[k][2])]

\* detectSurpassedMilestones passing over the entities prevScores lacks.
detectSurpassedKnownOnly(prevScores) ==
  LET puuids == SetToSeq(DOMAIN players)
      newScores == [q \in DOMAIN players |->
                      rankScore(players[q].tier, players[q].rank, players[q].lp)]
      hit(pr) == /\ pr[1] \in DOMAIN prevScores /\ pr[2] \in DOMAIN prevScores
                 /\ prevScores[pr[1]] <= prevScores[pr[2]]
                 /\ newScores[pr[1]] > newScores[pr[2]]
                 /\ newScores[pr[1]] > 0
      hits == SelectSeq(PairsFrom(puuids, puuids), hit)
  IN  [k \in 1 .. Len(hits) |-> Event("surpassed", hits[k][1], hits[k][2])]

\* detectSurpassedMilestones: the rows it inserts, given prevScores and the
\* players table it reads.
detectSurpassedMilestones(prevScores) ==
  LET puuids == SetToSeq(DOMAIN players)
      newScores == [q \in DOMAIN players |->
                      rankScore(players[q].tier, players[q].rank, players[q].lp)]
      prevOf(q) == IF q \in DOMAIN prevScores THEN prevScores[q] ELSE -1
      hit(pr) == /\ prevOf(pr[1]) <= prevOf(pr[2])
                 /\ newScores[pr[1]] > newScores[pr[2]]
                 /\ newScores[pr[1]] > 0
      hits == SelectSeq(PairsFrom(puuids, puuids), hit)
  IN  [k \in 1 .. Len(hits) |-> Event("surpassed", hits[k][1], hits[k][2])]

mrest == <<hvars, b, clock, matches, player_matches, upvars, detailCalls,
           sample, score, view, evars>>

\* buildSnapshot is called.
MStart ==
  /\ mc.pc = "none"
  /\ cycles < MaxCycles
  /\ cycles' = cycles + 1
  /\ mc' = [MIdle EXCEPT !.pc = "prev", !.before = Len(milestones)]
  /\ UNCHANGED <<mrest, latest_updated_at, players, rank_history, milestones>>

\* prevScores[p.puuid] = rankScore(p.tier, p.rank, p.lp) for every row
MLoadPrev ==
  /\ mc.pc = "prev"
  /\ mc' = [mc EXCEPT !.pc = "calls", !.i = 1,
                      !.prevScores =
                        [q \in DOMAIN players |->
                           rankScore(players[q].tier, players[q].rank,
                                     players[q].lp)]]
  /\ UNCHANGED <<mrest, latest_updated_at, cycles, players, rank_history, milestones>>

\* The end of the roster loop's body, or its catch: next roster entry.
MNextEntity(r) ==
  IF r.i < NumPlayers
  THEN [r EXCEPT !.pc = "calls", !.i = r.i + 1, !.solo = NoSolo]
  ELSE [r EXCEPT !.pc = "surpass", !.i = 0, !.solo = NoSolo]

\* The upstream calls of a roster entry (account, summoner, rank entries,
\* live game, match ids): all answer, the rank call with r, or one fails.
MCalls(ok, r) ==
  /\ mc.pc = "calls"
  /\ mc' = IF ok
           THEN [mc EXCEPT !.pc = "upsert",
                           !.solo = [tier |-> r.tier, rank |-> r.rank,
                                     lp |-> r.lp, wins |-> 0, losses |-> 0]]
           ELSE MNextEntity(mc)
  /\ UNCHANGED <<mrest, latest_updated_at, cycles, players, rank_history, milestones>>

\* The upsert also bringing the entity's entry of prevScores up to date.
MUpsertTracksPrev ==
  /\ mc.pc = "upsert"
  /\ players' = UpsertRow(players, mc.i, RowOf(mc.solo))
  /\ latest_updated_at' = {clock}
  /\ mc' = [mc EXCEPT !.pc = "hist", !.reconciled = mc.reconciled \cup {mc.i},
                      !.prevScores =
                        [q \in DOMAIN mc.prevScores \cup {mc.i} |->
                           IF q = mc.i THEN NewScore(mc) ELSE mc.prevScores[q]]]
  /\ UNCHANGED <<mrest, cycles, rank_history, milestones>>

\* await supabase.from("players").upsert(playerRow, { onConflict: "puuid" })
MUpsert ==
  /\ mc.pc = "upsert"
  /\ players' = UpsertRow(players, mc.i, RowOf(mc.solo))
  /\ latest_updated_at' = {clock}
  /\ mc' = [mc EXCEPT !.pc = "hist", !.reconciled = mc.reconciled \cup {mc.i}]
  /\ UNCHANGED <<mrest, cycles, rank_history, milestones>>

\* await supabase.from("rank_history").insert({...})  -- every cycle
MHistory ==
  /\ mc.pc = "hist"
  /\ rank_history' = [rank_history EXCEPT ![mc.i] = Append(@, HistoryRow(mc))]
  /\ mc' = [mc EXCEPT !.pc = "detect"]
  /\ UNCHANGED <<mrest, latest_updated_at, cycles, players, milestones>>

\* await detectMilestones(supabase, acc.puuid, prevScores[acc.puuid], score,
\* playerRow); the match section that follows writes only matches and
\* player_matches and is modelled with the current file's buildSnapshot.
MDetect ==
  /\ mc.pc = "detect"
  /\ milestones' = milestones \o
       detectMilestones(mc.i,
                        IF mc.i \in DOMAIN mc.prevScores
                        THEN {mc.prevScores[mc.i]} ELSE {},
                        NewScore(mc))
  /\ mc' = MNextEntity(mc)
  /\ UNCHANGED <<mrest, latest_updated_at, cycles, players, rank_history>>

\* await detectSurpassedMilestones(supabase, prevScores)
MSurpassed ==
  /\ mc.pc = "surpass"
  /\ milestones' = milestones \o detectSurpassedMilestones(mc.prevScores)
  /\ mc' = [mc EXCEPT !.pc = "final"]
  /\ UNCHANGED <<mrest, latest_updated_at, cycles, players, rank_history>>

\* return await readPlayersFromDB(supabase)
MFinish ==
  /\ mc.pc = "final"
  /\ mc' = MIdle
  /\ UNCHANGED <<mrest, latest_updated_at, cycles, players, rank_history, milestones>>

\* Any part of the roster has been persisted before, with any rank.
InitMilestones ==
  /\ HandlersIdle /\ HandlersFresh
  /\ clock = 0 /\ matches = {} /\ player_matches = {} /\ played = <<>>
  /\ \E D \in SUBSET PLAYERS :
       players \in [D -> { RowOf(r) : r \in MilestoneRanks }]
  /\ latest_updated_at = IF DOMAIN players = {} THEN {} ELSE {0}
  /\ rank_history =
       [p \in PLAYERS |->
          IF p \in DOMAIN players
          THEN <<[tier |-> players[p].tier, rank |-> players[p].rank,
                  lp |-> players[p].lp,
                  score |-> rankScore(players[p].tier, players[p].rank,
                                      players[p].lp)]>>
          ELSE <<>>]
  /\ milestones = <<>> /\ mc = MIdle
  /\ sample = <<>> /\ score = <<>> /\ view = NoView /\ EndpointsIdle

NextMilestones ==
  \/ MStart
  \/ MLoadPrev
  \/ MCalls(FALSE, Unranked)
  \/ \E r \in MilestoneRanks : MCalls(TRUE, r)
  \/ MUpsert
  \/ MHistory
  \/ MDetect
  \/ MSurpassed
  \/ MFinish

SpecMilestones == InitMilestones /\ [][NextMilestones]_vars

\* ---- rankScore on its own
\* The tiers that have a single division, reported as "I".
ApexTiers == {"MASTER", "GRANDMASTER", "CHALLENGER"}
Divisions(tier) == IF tier \in ApexTiers THEN {"I"} ELSE DOMAIN RANK_ORDER

\* League points tried: around what a division, and a tier, weighs.
LPs ==
  {0, 100, DivisionStep - 1, DivisionStep,
   TierStep - 3 * DivisionStep - 1, TierStep - 3 * DivisionStep}

RankedEntries ==
  { [tier |-> tr, rank |-> rk, lp |-> n] :
      tr \in DOMAIN TIER_ORDER, rk \in DOMAIN RANK_ORDER, n \in LPs }

Entries ==
  { e \in RankedEntries : e.rank \in Divisions(e.tier) } \cup {Unranked}

InitScore ==
  /\ HandlersIdle /\ HandlersFresh /\ StoreEmpty
  /\ milestones = <<>> /\ mc = MIdle /\ view = NoView /\ EndpointsIdle
  /\ sample \in Entries \X Entries
  /\ score = <<>>

\* rankScore is applied to both entries of the sample.
ScoreSample ==
  /\ score = <<>>
  /\ score' = [k \in 1 .. 2 |->
                 rankScore(sample[k].tier, sample[k].rank, sample[k].lp)]
  /\ UNCHANGED <<hvars, b, clock, dbvars, upvars, cntvars, milestones, mc,
                 sample, view, evars>>

NextScore == ScoreSample

SpecScore == InitScore /\ [][NextScore]_vars

\* ---- data.js, type=players: the leaderboard read from the store
\* The store after cycles in which entity 1 played n ranked matches, some of
\* them with entity 2: every players row is up to date, and of the matches
\* any part has been stored (a detail request that fails is not repeated,
\* and the id list of a cycle holds only the MAX_MATCHES newest).
StoreView(n, With2, Kept) ==
  /\ clock = 0
  /\ played = [m \in 1 .. n |-> IF m \in With2 THEN PLAYERS ELSE {1}]
  /\ players = [q \in PLAYERS |->
                  [SeedRow EXCEPT !.wins = UpWins(q), !.losses = UpLosses(q)]]
  /\ latest_updated_at = {0}
  /\ rank_history = [q \in PLAYERS |->
                       <<[tier |-> "GOLD", rank |-> "I", lp |-> 50,
                          score |-> rankScore("GOLD", "I", 50)]>>]
  /\ matches = { [match_id |-> m, data |-> MatchData(m)] : m \in Kept }
  /\ player_matches =
       UNION { { [puuid |-> q, match_id |-> m, win |-> Won(q, m),
                  champ |-> Champ(q, m), kills |-> Kills(q, m),
                  deaths |-> Deaths(q, m), assists |-> Assists(q, m),
                  played_at |-> m] : q \in played[m] } :
                m \in Kept }

InitView ==
  /\ HandlersIdle /\ HandlersFresh /\ OthersIdle
  /\ \E n \in 0 .. ViewMatches :
       \E With2 \in SUBSET (1 .. (IF n < 2 THEN n ELSE 2)) :
         \E Kept \in SUBSET (1 .. n) : StoreView(n, With2, Kept)

\* case "players": the two selects, then res.status(200).json({ players:
\* result, updatedAt, cached: true }); when the first select reports an
\* error, the catch answers 500.
DataPlayers(ok) ==
  /\ view' = IF ok
             THEN [status |-> 200, players |-> readPlayersFromDB,
                   cached |-> TRUE]
             ELSE [status |-> 500, players |-> <<>>, cached |-> FALSE]
  /\ UNCHANGED <<hvars, b, clock, dbvars, upvars, cntvars, milestones, mc,
                 sample, score, evars>>

NextView == \E ok \in BOOLEAN : DataPlayers(ok)

SpecView == InitView /\ [][NextView]_vars

\* ---- matches.js: match details cached in the memory of the instance
\* matchCache[id] is undefined while id is not in the domain, null while it
\* is {} and otherwise the one participant map in it.
Falsy(id) == id \notin DOMAIN matchCache \/ matchCache[id] = {}

\* requested.filter(id => !matchCache[id])
Missing(requested) == SelectSeq(requested, Falsy)

\* result[id] = matchCache[id] || null, for the ids requested
ResultFor(requested) ==
  [k \in 1 .. Len(requested) |->
     [id |-> requested[k],
      data |-> IF Falsy(requested[k]) THEN {} ELSE matchCache[requested[k]]]]

\* The ids= parameters tried: one or two ids of upstream matches.
IdLists ==
  { <<m>> : m \in MatchIds } \cup { <<m, n>> : m \in MatchIds, n \in MatchIds }

Fetches(id) == IF id \in DOMAIN fetches THEN fetches[id] ELSE 0

\* The upstream requests made so far and those the invocations under way
\* have yet to make.
RECURSIVE SumOver(_, _)
SumOver(f, S) ==
  IF S = {} THEN 0
  ELSE LET x == CHOOSE y \in S : TRUE IN f[x] + SumOver(f, S \ {x})
Outstanding ==
  SumOver(fetches, DOMAIN fetches)
    + SumOver([t \in MatchTriggers |->
                 IF mq[t].pc = "idle" THEN 0
                 ELSE Len(mq[t].missing) - mq[t].k
                        + (IF mq[t].pc = "get" THEN 1 ELSE 0)],
              MatchTriggers)

mqrest == <<hvars, b, clock, dbvars, upvars, cntvars, milestones, mc, sample,
            score, view, bf>>

\* A request arrives: requested and missing are computed and, with nothing
\* missing, the body is sent at once; otherwise the first get is awaited.
MatchesArrive(t, ids) ==
  /\ mq[t].pc = "idle"
  /\ Outstanding + Len(Missing(ids)) <= MaxFetches
  /\ mq' = [mq EXCEPT ![t] =
              IF Missing(ids) = <<>>
              THEN [MqIdle EXCEPT !.requested = ids, !.result = ResultFor(ids)]
              ELSE [pc |-> "get", requested |-> ids, missing |-> Missing(ids),
                    k |-> 1, result |-> <<>>]]
  /\ UNCHANGED <<mqrest, matchCache, fetches>>

\* await get(ROUTING, `/lol/match/v5/matches/${id}`) settles: the participant
\* map is cached, or, in the catch, matchCache[id] = null.
MatchesGet(t, ok) ==
  /\ mq[t].pc = "get"
  /\ LET id == mq[t].missing[mq[t].k]
     IN  /\ matchCache' =
              [m \in DOMAIN matchCache \cup {id} |->
                 IF m = id THEN (IF ok THEN {MatchData(id)} ELSE {})
                 ELSE matchCache[m]]
         /\ fetches' = [m \in DOMAIN fetches \cup {id} |->
                          IF m = id THEN Fetches(id) + 1 ELSE fetches[m]]
  /\ mq' = [mq EXCEPT ![t].pc = "sleep"]
  /\ UNCHANGED mqrest

\* await sleep(DELAY_MS) ends: the next missing id, or the body is sent.
MatchesSleep(t) ==
  /\ mq[t].pc = "sleep"
  /\ mq' = [mq EXCEPT ![t] =
              IF mq[t].k < Len(mq[t].missing)
              THEN [mq[t] EXCEPT !.pc = "get", !.k = mq[t].k + 1]
              ELSE [mq[t] EXCEPT !.pc = "idle", !.k = 0,
                                 !.result = ResultFor(mq[t].requested)]]
  /\ UNCHANGED <<mqrest, matchCache, fetches>>

\* The instance has just started; the roster has played two ranked matches.
InitMatches ==
  /\ HandlersIdle /\ HandlersFresh /\ OthersIdle
  /\ clock = 0 /\ players = NoPrev /\ latest_updated_at = {}
  /\ rank_history = [p \in PLAYERS |-> <<>>]
  /\ matches = {} /\ player_matches = {}
  /\ played = [m \in MatchIds |-> IF m = 1 THEN PLAYERS ELSE {1}]

NextMatches ==
  \/ \E t \in MatchTriggers : \E ids \in IdLists : MatchesArrive(t, ids)
  \/ \E t \in MatchTriggers : \E ok \in BOOLEAN : MatchesGet(t, ok)
  \/ \E t \in MatchTriggers : MatchesSleep(t)

SpecMatches == InitMatches /\ [][NextMatches]_vars

\* ---- backfill.js: the one-time endpoint
\* /lol/match/v5/matches/by-puuid/.../ids?start=0&count=25&queue=420
BackfillIds(p) ==
  LET all == NewestFirst(p, Len(played))
  IN  SubSeq(all, 1, IF Len(all) < BackfillCount THEN Len(all) ELSE BackfillCount)

bfrest == <<hvars, b, clock, players, latest_updated_at, rank_history, upvars,
            cntvars, milestones, mc, sample, score, view, matchCache, mq,
            fetches>>

\* The outer catch, or the end of the body of the loop over TARGETS.
BfNextTarget(r) ==
  IF r.i < NumPlayers
  THEN [r EXCEPT !.pc = "acc", !.i = r.i + 1, !.matchIds = <<>>, !.j = 0]
  ELSE [r EXCEPT !.pc = "done", !.i = 0, !.matchIds = <<>>, !.j = 0]

\* for (const matchId of matchIds): the select on matches is awaited.
BfNextMatch(r) ==
  IF r.j < Len(r.matchIds)
  THEN [r EXCEPT !.pc = "existing", !.j = r.j + 1]
  ELSE BfNextTarget(r)

\* The handler is called: the account of the first target is requested.
BfStart ==
  /\ bf.pc = "none"
  /\ bf' = [BfIdle EXCEPT !.pc = "acc", !.i = 1,
                          !.before = { x.match_id : x \in matches }]
  /\ UNCHANGED <<bfrest, matches, player_matches>>

\* const acc = await riotGet(... accounts/by-riot-id ...)
BfAccount(ok) ==
  /\ bf.pc = "acc"
  /\ bf' = IF ok THEN [bf EXCEPT !.pc = "list"]
           ELSE BfNextTarget([bf EXCEPT !.failed = TRUE])
  /\ UNCHANGED <<bfrest, matches, player_matches>>

\* const matchIds = await riotGet(... ids?start=0&count=25&queue=420)
BfList(ok) ==
  /\ bf.pc = "list"
  /\ bf' = IF ok
           THEN BfNextMatch([bf EXCEPT !.matchIds = BackfillIds(bf.i), !.j = 0,
                                       !.lists[bf.i] = BackfillIds(bf.i)])
           ELSE BfNextTarget([bf EXCEPT !.failed = TRUE])
  /\ UNCHANGED <<bfrest, matches, player_matches>>

\* const { data: existing } = await supabase.from("matches")...single()
\* and, if it is there, the select on player_matches is sent; otherwise the
\* details are requested.
BfExisting ==
  /\ bf.pc = "existing"
  /\ bf' = IF \E x \in matches : x.match_id = bf.matchIds[bf.j]
           THEN [bf EXCEPT !.pc = "pm"]
           ELSE [bf EXCEPT !.pc = "detail"]
  /\ UNCHANGED <<bfrest, matches, player_matches>>

\* The select on player_matches finding a row in every case.
BfPmFound ==
  /\ bf.pc = "pm"
  /\ bf' = BfNextMatch(bf)
  /\ UNCHANGED <<bfrest, matches, player_matches>>

\* const { data: pm } = await supabase.from("player_matches")...single();
\* if (!pm) the data of the stored match is read.
BfPm ==
  /\ bf.pc = "pm"
  /\ bf' = IF \E r \in player_matches :
                r.puuid = bf.i /\ r.match_id = bf.matchIds[bf.j]
           THEN BfNextMatch(bf)
           ELSE [bf EXCEPT !.pc = "mdata"]
  /\ UNCHANGED <<bfrest, matches, player_matches>>

\* const { data: mData } = ...select("data")...; if (mData?.data?.[puuid])
\* the player_matches row is upserted from it, with played_at the time of
\* the repair.
BfRepair ==
  /\ bf.pc = "mdata"
  /\ LET m == bf.matchIds[bf.j]
         found == { x \in matches : x.match_id = m /\ bf.i \in DOMAIN x.data }
     IN  player_matches' =
           IF found = {} THEN player_matches
           ELSE LET part == (CHOOSE x \in found : TRUE).data[bf.i]
                IN  UpsertPlayerMatchRow(player_matches,
                      [puuid |-> bf.i, match_id |-> m, win |-> part.win,
                       champ |-> part.champ, kills |-> part.k,
                       deaths |-> part.d, assists |-> part.a,
                       played_at |-> clock])
  /\ bf' = BfNextMatch(bf)
  /\ UNCHANGED <<bfrest, matches>>

\* const m = await riotGet(ROUTING, `/lol/match/v5/matches/${matchId}`);
\* a failure is caught by the inner catch.
BfDetail(ok) ==
  /\ bf.pc = "detail"
  /\ LET r == [bf EXCEPT !.fetched = Append(bf.fetched, bf.matchIds[bf.j])]
     IN  bf' = IF ok THEN [r EXCEPT !.pc = "mstore"]
               ELSE BfNextMatch([r EXCEPT !.failed = TRUE])
  /\ UNCHANGED <<bfrest, matches, player_matches>>

\* await supabase.from("matches").upsert({...}); const part =
\* participantMap[acc.puuid]
BfStoreMatch ==
  /\ bf.pc = "mstore"
  /\ LET m == bf.matchIds[bf.j]
     IN  /\ matches' = UpsertMatchRow(matches,
                                      [match_id |-> m, data |-> MatchData(m)])
         /\ bf' = IF bf.i \in DOMAIN MatchData(m)
                  THEN [bf EXCEPT !.pc = "pmstore"]
                  ELSE BfNextMatch(bf)
  /\ UNCHANGED <<bfrest, player_matches>>

\* if (part) await supabase.from("player_matches").upsert({...})
BfStorePlayerMatch ==
  /\ bf.pc = "pmstore"
  /\ LET m == bf.matchIds[bf.j]
         part == MatchData(m)[bf.i]
     IN  player_matches' =
           UpsertPlayerMatchRow(player_matches,
             [puuid |-> bf.i, match_id |-> m, win |-> part.win,
              champ |-> part.champ, kills |-> part.k, deaths |-> part.d,
              assists |-> part.a, played_at |-> m])
  /\ bf' = BfNextMatch(bf)
  /\ UNCHANGED <<bfrest, matches>>

\* The rows the snapshot cycles write for match m.
PlayerMatchRows(m) ==
  { [puuid |-> q, match_id |-> m, win |-> Won(q, m), champ |-> Champ(q, m),
     kills |-> Kills(q, m), deaths |-> Deaths(q, m), assists |-> Assists(q, m),
     played_at |-> m] : q \in played[m] }

\* The targets have played up to MaxMatches ranked matches; some of these
\* are stored, with or without the player_matches rows of their participants.
InitBackfill ==
  /\ HandlersIdle /\ HandlersFresh /\ OthersIdle
  /\ clock = MaxMatches + 1
  /\ players = NoPrev /\ latest_updated_at = {}
  /\ rank_history = [p \in PLAYERS |-> <<>>]
  /\ \E n \in 0 .. MaxMatches :
       played \in [1 .. n -> (SUBSET PLAYERS) \ {{}}]
  /\ \E Kept \in SUBSET (1 .. Len(played)) :
       /\ matches = { [match_id |-> m, data |-> MatchData(m)] : m \in Kept }
       /\ player_matches \in SUBSET (UNION { PlayerMatchRows(m) : m \in Kept })

NextBackfill ==
  \/ BfStart
  \/ \E ok \in BOOLEAN : BfAccount(ok)
  \/ \E ok \in BOOLEAN : BfList(ok)
  \/ BfExisting
  \/ BfPm
  \/ BfRepair
  \/ \E ok \in BOOLEAN : BfDetail(ok)
  \/ BfStoreMatch
  \/ BfStorePlayerMatch

SpecBackfill == InitBackfill /\ [][NextBackfill]_vars


\* ================================================================ claims
Inside(t) == pc[t] \in {"build", "fallback"}
Answered(t) == pc[t] = "idle" /\ resp[t].status # 0
Persisted == DOMAIN players # {}

\* The freshness query of t returned a row younger than the window.
Younger(t) == \E u \in latest[t] : clock - u < FreshWindow

\* t reaches the lock check in this step.
AtLockCheck(t) ==
  \/ pc[t] = "idle" /\ pc'[t] # "idle" /\ force'[t]
  \/ pc[t] = "fresh_wait" /\ pc'[t] # "fresh_wait" /\ ~Younger(t)

\* C1: at no time are two invocations both inside buildSnapshot.
C1_AtMostOneCycle ==
  \A t1, t2 \in Triggers : (pc[t1] = "build" /\ pc[t2] = "build") => t1 = t2

\* A cycle is half way while another invocation has found it running.
C1_Witness ==
  \E t1, t2 \in Triggers :
    pc[t1] = "build" /\ b.pc = "upsert" /\ b.i = NumPlayers /\ pc[t2] = "waiting"

\* C2: two requests arriving together with stale data and no cycle running
\* cause exactly one cycle in total, whatever the interleaving.
C2_ExactlyOneCycle == (\A t \in Triggers : pc[t] = "idle") => cycles = 1

\* C3: every invocation that has arrived eventually answers.
C3_EveryTriggerAnswered ==
  \A t \in Triggers : (pc[t] # "idle") ~> Answered(t)

\* One invocation has answered after waiting, another after a fatal cycle.
C3_Witness ==
  \E t1, t2 \in Triggers :
    /\ Answered(t1) /\ path[t1] = {"wait"}
    /\ Answered(t2) /\ "fallback" \in path[t2]

\* C4: whenever no invocation is in the build section (the cycle or the
\* fallback after its failure) the lock is free.
C4_LockReleased == (\A t \in Triggers : ~Inside(t)) => ~building

\* A cycle has ended with a fatal error and a later request runs a new one.
C4_Witness ==
  \E t1, t2 \in Triggers :
    /\ Answered(t1) /\ "fallback" \in path[t1]
    /\ pc[t2] = "build" /\ cycles = 2

\* C5: an unforced invocation whose freshness query returned a row younger
\* than the window goes straight to reading the store and answers 200 with
\* cached = true from what is persisted; it takes no lock, starts no cycle,
\* does not wait and makes no upstream call.
C5_FreshPath ==
  [][\A t \in Triggers :
       /\ (pc[t] = "fresh_wait" /\ pc'[t] # "fresh_wait" /\ Younger(t))
            => (pc'[t] = "fresh_read" /\ building' = building /\ cycles' = cycles)
       /\ (pc[t] = "fresh_read" /\ pc'[t] # "fresh_read")
            => /\ pc'[t] = "idle"
               /\ resp'[t] = [status |-> 200, cached |-> TRUE, stale |-> FALSE,
                              some |-> Persisted]
               /\ ~called'[t] /\ ~force'[t]
               /\ building' = building /\ cycles' = cycles]_vars

\* An invocation has answered on the fresh path, from rows that the first
\* cycle wrote, while that cycle is still running.
C5_Witness ==
  \E t \in Triggers :
    Answered(t) /\ path[t] = {"fresh"} /\ resp[t].some /\ building /\ cycles = 1

\* C6: an invocation (forced or stale) that reaches the lock check while a
\* cycle is running waits, leaves the wait only when the flag is clear or
\* its timeout has passed, then answers 200 with cached = true from what is
\* persisted; it never starts a cycle and makes no upstream call.
C6_WaiterNeverBuilds ==
  [][\A t \in Triggers :
       /\ (AtLockCheck(t) /\ building)
            => (pc'[t] = "waiting" /\ cycles' = cycles)
       /\ (pc[t] = "waiting" /\ pc'[t] # "waiting")
            => /\ pc'[t] = "wait_read"
               /\ ~building \/ timedOut[t]
               /\ cycles' = cycles /\ building' = building
       /\ (pc[t] = "wait_read" /\ pc'[t] # "wait_read")
            => /\ pc'[t] = "idle"
               /\ resp'[t] = [status |-> 200, cached |-> TRUE, stale |-> FALSE,
                              some |-> Persisted]
               /\ ~called'[t]
               /\ cycles' = cycles /\ building' = building]_vars

\* A waiter has answered while the only cycle so far is still running (so
\* it left the wait by its timeout).
C6_Witness ==
  \E t \in Triggers :
    Answered(t) /\ path[t] = {"wait"} /\ building /\ cycles = 1

RowScore(r) == rankScore(r.tier, r.rank, r.lp)
Total(r) == r.wins + r.losses

\* C8: when the cycle reconciles an entity that has a persisted row, it goes
\* on to the history insert exactly if the score of the row it writes
\* differs from the score of the row it replaces; the insert appends one
\* row, carrying the new score, and no other step touches the history.
C8_HistoryGating ==
  [][/\ (b.pc = "upsert" /\ b'.pc # "upsert" /\ b.i \in DOMAIN players)
          => ((b'.pc = "hist") <=> (RowScore(players'[b.i]) # RowScore(players[b.i])))
     /\ (b.pc = "hist" /\ b'.pc # "hist")
          => /\ Len(rank_history'[b.i]) = Len(rank_history[b.i]) + 1
             /\ rank_history'[b.i][Len(rank_history'[b.i])].score
                  = RowScore(players[b.i])
             /\ \A q \in PLAYERS \ {b.i} : rank_history'[q] = rank_history[q]
             /\ \A k \in 1 .. Len(rank_history[b.i]) :
                  rank_history'[b.i][k] = rank_history[b.i][k]
     /\ (b.pc # "hist") => rank_history' = rank_history]_vars

\* A second cycle has reconciled both entities: the score of entity 1 was
\* the persisted one (nothing appended), that of entity 2 was not (one row
\* appended).
C8_Witness ==
  /\ b.pc = "final" /\ cycles = 2 /\ b.upserted = PLAYERS
  /\ DOMAIN b.prevByPuuid = PLAYERS
  /\ Len(rank_history[1]) = 1 /\ Len(rank_history[2]) = 2
  /\ rank_history[2][2].score < rank_history[2][1].score

RequestsFor(m) == { k \in 1 .. Len(b.requests) : b.requests[k].id = m }

\* C10: at the end of a cycle that found both entities persisted, resolved
\* both and was served every detail it asked for, a match that both entities
\* played and whose details the cycle fetched was requested once and has a
\* player_matches row for each of the two.
C10_SharedMatch ==
  (b.pc = "final" /\ b.trackedPuuids = PLAYERS /\ b.upserted = PLAYERS
     /\ DOMAIN b.prevByPuuid = PLAYERS
     /\ \A k \in 1 .. Len(b.requests) : b.requests[k].ok)
    => \A m \in 1 .. Len(played) :
         (Cardinality(played[m]) >= 2 /\ RequestsFor(m) # {})
           => /\ Cardinality(RequestsFor(m)) = 1
              /\ \A p \in played[m] :
                   \E r \in player_matches : r.puuid = p /\ r.match_id = m

\* Match m is in the matches table.
Stored(m) == \E r \in matches : r.match_id = m

\* C11: the details of a match are requested only while the match is not in
\* the matches table: once they have been fetched and stored, no later
\* entity of the cycle and no later cycle requests them again.
C11_FetchedOnce ==
  [][\A m \in MatchIds :
       (detailCalls'[m] # detailCalls[m])
         => /\ ~Stored(m)
            /\ detailCalls'[m] = detailCalls[m] + 1
            /\ b.pc = "detail" /\ b.matchIds[b.j] = m]_vars

\* A second cycle is requesting the details of a new match, having passed
\* over a match of the same batch that the first cycle fetched and stored.
C11_Witness ==
  /\ b.pc = "detail" /\ cycles = 2
  /\ \E k \in 1 .. Len(b.matchIds) :
       /\ Stored(b.matchIds[k]) /\ detailCalls[b.matchIds[k]] = 1
       /\ b.matchIds[k] # b.matchIds[b.j]

\* The cycle is at an upstream call.
AtCall == b.pc \in {"acc", "sum", "rank", "live", "mlist", "detail"}

\* C12: whatever an upstream call answers, the invocation stays in its cycle
\* with the lock held, and the cycle goes on with the same roster entry, with
\* the account call of the next one, or, after the last entry, with its final
\* read; a cycle turns fatal only at its first or its final store read.
C12_FailureIsolated ==
  [][/\ (AtCall /\ b' # b)
          => /\ pc' = pc /\ building'
             /\ \/ b'.i = b.i /\ b'.pc \notin {"none", "final", "acc"}
                \/ b'.i = b.i + 1 /\ b'.pc = "acc"
                \/ b.i = NumPlayers /\ b'.pc = "final"
     /\ \A t \in Triggers :
          (pc[t] = "build" /\ pc'[t] = "fallback") => b.pc \in {"prev", "final"}]_vars

\* A required call failed for roster entry 1; entry 2 has been persisted all
\* the same and the cycle is at its final read.
C12_Witness ==
  /\ b.pc = "final" /\ 1 \in b.failed /\ 1 \in b.trackedPuuids
  /\ 2 \in b.upserted /\ 2 \notin b.failed

\* The columns of a players row that buildSnapshot loads before the cycle.
RowData(r) ==
  [tier |-> r.tier, rank |-> r.rank, lp |-> r.lp, wins |-> r.wins,
   losses |-> r.losses]

\* C13: a roster entry for which a required upstream call failed in the
\* running cycle has the players row it had before the cycle (or none, if it
\* had none) and no history row from this cycle.
C13_FailedUntouched ==
  \A i \in b.failed :
    /\ i \in DOMAIN players <=> i \in DOMAIN b.prevByPuuid
    /\ i \in DOMAIN b.prevByPuuid => RowData(players[i]) = b.prevByPuuid[i]
    /\ i \notin b.appended

\* The detail requests made for m before the running cycle.
PriorCalls(m) == detailCalls[m] - Cardinality(RequestsFor(m))

\* C14: at the end of a cycle that processed, with no failed call, every
\* roster member who played m, a match whose details an earlier cycle
\* requested in vain (and which is still not stored) has had its details
\* requested again.
C14_FailedDetailRetried ==
  b.pc = "final"
    => \A m \in 1 .. Len(played) :
         (/\ ~Stored(m) /\ PriorCalls(m) >= 1
          /\ played[m] \subseteq b.upserted /\ played[m] \cap b.failed = {})
           => RequestsFor(m) # {}

\* The live-game request did not get a success response.
NoSuccess(o) == o.kind # "response" \/ o.status < 200 \/ o.status >= 300

TierOf(e) == TIER_ORDER[e.tier]
DivisionOf(e) == RANK_ORDER[e.rank]
Below(e1, e2) ==
  \/ TierOf(e1) < TierOf(e2)
  \/ TierOf(e1) = TierOf(e2) /\ DivisionOf(e1) < DivisionOf(e2)
  \/ TierOf(e1) = TierOf(e2) /\ DivisionOf(e1) = DivisionOf(e2) /\ e1.lp < e2.lp

Scored == score # <<>>
BothRanked == sample[1].tier # NoTier /\ sample[2].tier # NoTier

\* C16 as stated: for any two ranked entries, with any points >= 0, the one
\* that is below by tier, then division, then points has the lower score.
C16_Monotonic ==
  (Scored /\ BothRanked /\ Below(sample[1], sample[2])) => score[1] < score[2]

\* C16, amended: the same, for a lower entry with fewer points than a
\* division weighs when the two differ by division, and fewer than the tier
\* weighs beyond its divisions when they differ by tier.
C16_MonotonicWithin ==
  (/\ Scored /\ BothRanked /\ Below(sample[1], sample[2])
   /\ TierOf(sample[1]) = TierOf(sample[2]) => sample[1].lp < DivisionStep
   /\ TierOf(sample[1]) < TierOf(sample[2])
        => sample[1].lp < TierStep - 3 * DivisionStep)
    => score[1] < score[2]

\* Gold IV with 999 points has been scored below Gold III with none.
C16_Witness ==
  /\ Scored /\ score[1] < score[2]
  /\ sample[1] = [tier |-> "GOLD", rank |-> "IV", lp |-> DivisionStep - 1]
  /\ sample[2] = [tier |-> "GOLD", rank |-> "III", lp |-> 0]

\* C17: an entry with no tier scores strictly less than any ranked entry.
C17_UnrankedLowest ==
  (Scored /\ sample[1].tier = NoTier /\ sample[2].tier # NoTier)
    => score[1] < score[2]

\* An unranked entry and Iron IV with no points have been scored -1 and 0.
C17_Witness ==
  /\ Scored /\ sample[1] = Unranked
  /\ sample[2] = [tier |-> "IRON", rank |-> "IV", lp |-> 0]
  /\ score[1] = -1 /\ score[2] = 0

\* The score of an entry with no tier.
Sentinel == rankScore(NoTier, NoRank, 0)

\* The tier bucket of a score.
Bucket(sc) == sc \div TierStep

\* The pre-cycle and the post-cycle score of p in the milestone-recording
\* cycle, and the number of rows of a type it has inserted for actor p.
Pre(p) == mc.prevScores[p]
Post(p) == RowScore(players[p])
Emitted(type, p) ==
  Cardinality({ k \in (mc.before + 1) .. Len(milestones) :
                  milestones[k].type = type /\ milestones[k].actor_puuid = p })

\* Every roster entry has been through the loop of the cycle.
LoopDone == mc.pc \in {"surpass", "final"}

\* C18: once the cycle has been through the roster, every entity it
\* reconciled whose pre-cycle score is known, whose tier bucket went up and
\* whose new score is a ranked one has exactly one `promoted` row.
C18_Promoted ==
  LoopDone
    => \A p \in mc.reconciled \cap DOMAIN mc.prevScores :
         (Bucket(Post(p)) > Bucket(Pre(p)) /\ Post(p) # Sentinel)
           => Emitted("promoted", p) = 1

\* C19: once the cycle has been through the roster, every entity it
\* reconciled whose pre-cycle score is known and ranked and whose tier
\* bucket went down has exactly one `demoted` row, and no entity has both a
\* `promoted` and a `demoted` row.
C19_Demoted ==
  LoopDone
    => /\ \A p \in mc.reconciled \cap DOMAIN mc.prevScores :
            (Bucket(Post(p)) < Bucket(Pre(p)) /\ Pre(p) # Sentinel)
              => Emitted("demoted", p) = 1
       /\ \A p \in PLAYERS :
            Emitted("promoted", p) = 0 \/ Emitted("demoted", p) = 0

\* C20: an entity whose pre-cycle score is unknown, or whose tier bucket is
\* the same before and after, has no `promoted` and no `demoted` row from
\* the cycle.
C20_NoEvent ==
  LoopDone
    => \A p \in mc.reconciled :
         (p \notin DOMAIN mc.prevScores \/ Bucket(Post(p)) = Bucket(Pre(p)))
           => Emitted("promoted", p) = 0 /\ Emitted("demoted", p) = 0

\* Entity 1 has been seen for the first time, as Platinum IV, and entity 2
\* has gone from Gold II to Gold I; the cycle has inserted no milestone for
\* either.
C20_Witness ==
  /\ mc.pc = "surpass" /\ mc.reconciled = PLAYERS
  /\ DOMAIN mc.prevScores = {2}
  /\ players[1].tier = "PLATINUM"
  /\ Pre(2) = rankScore("GOLD", "II", 50) /\ Post(2) = rankScore("GOLD", "I", 50)
  /\ Len(milestones) = mc.before

\* The number of `surpassed` rows with actor p and target q the cycle has
\* inserted.
Overtakes(p, q) ==
  Cardinality({ k \in (mc.before + 1) .. Len(milestones) :
                  /\ milestones[k].type = "surpassed"
                  /\ milestones[k].actor_puuid = p
                  /\ milestones[k].target_puuid = q })

\* The overtake pass of the cycle has run.
PassDone == mc.pc = "final"

\* The ordered pairs of distinct entities that had a players row before the
\* cycle.
KnownPairs ==
  { pr \in (DOMAIN mc.prevScores) \X (DOMAIN mc.prevScores) : pr[1] # pr[2] }

\* C21: after the overtake pass, for every ordered pair (A, B) of distinct
\* entities known before the cycle there is exactly one surpassed(A, B) row
\* if A's pre-cycle score was at most B's, A's post-cycle score is above
\* B's and A's post-cycle score is a ranked one, and no such row otherwise.
C21_Surpassed ==
  PassDone
    => \A pr \in KnownPairs :
         Overtakes(pr[1], pr[2]) =
           IF /\ Pre(pr[1]) <= Pre(pr[2])
              /\ Post(pr[1]) > Post(pr[2])
              /\ Post(pr[1]) # Sentinel
           THEN 1 ELSE 0

\* The scores of the rows of a players table.
ScoresOf(tbl) == [q \in DOMAIN tbl |-> RowScore(tbl[q])]

\* The number of `surpassed` rows in a milestones table.
SurpassedRows(tbl) ==
  Cardinality({ k \in 1 .. Len(tbl) : tbl[k].type = "surpassed" })

\* C22: within a cycle prevScores is set once, from the players table and
\* before the cycle has written any players row, and is not changed
\* afterwards; `surpassed` rows are inserted only by the pass that follows
\* the roster loop; and from the end of the loop to the end of the cycle no
\* players row changes, so the pass reads post-cycle scores.
C22_OneSnapshot ==
  [][ /\ (mc'.prevScores # mc.prevScores /\ mc'.pc # "none")
           => /\ mc.pc = "prev" /\ mc.reconciled = {}
              /\ mc'.prevScores = ScoresOf(players)
              /\ players' = players
      /\ SurpassedRows(milestones') # SurpassedRows(milestones)
           => /\ mc.pc = "surpass"
              /\ mc.prevScores = mc'.prevScores
      /\ LoopDone => players' = players ]_vars

\* Both entities moved in the cycle, entity 1 from Gold II, below entity 2's
\* Gold I, to Platinum IV, above entity 2's new Gold II, and the pass has
\* inserted surpassed(1, 2).
C22_Witness ==
  /\ PassDone /\ mc.reconciled = PLAYERS /\ DOMAIN mc.prevScores = PLAYERS
  /\ Pre(1) = rankScore("GOLD", "II", 50) /\ Pre(2) = rankScore("GOLD", "I", 50)
  /\ Post(1) = rankScore("PLATINUM", "IV", 0)
  /\ Post(2) = rankScore("GOLD", "II", 50)
  /\ Overtakes(1, 2) = 1 /\ Overtakes(2, 1) = 0

\* C29: after the overtake pass no pair of entities has both a
\* surpassed(A, B) and a surpassed(B, A) row from the cycle, and when A went
\* from a score at most B's to a score above B's, B's score being the same
\* before and after, there is exactly one surpassed(A, B) row and no
\* surpassed(B, A) row.
C29_OneDirection ==
  PassDone
    => \A pr \in KnownPairs :
         /\ Overtakes(pr[1], pr[2]) = 0 \/ Overtakes(pr[2], pr[1]) = 0
         /\ (/\ Pre(pr[1]) <= Pre(pr[2])
             /\ Post(pr[2]) = Pre(pr[2])
             /\ Post(pr[1]) > Post(pr[2]))
              => Overtakes(pr[1], pr[2]) = 1 /\ Overtakes(pr[2], pr[1]) = 0

\* The rows of player_matches of p, and how many of them were played after
\* row r.
RowsOf(p) == { r \in player_matches : r.puuid = p }
Newer(r) ==
  Cardinality({ x \in RowsOf(r.puuid) : x.played_at > r.played_at })

\* The row of p an entry of recentMatches was made from.
RowFor(p, e) == { r \in RowsOf(p) : r.champ = e.champ /\ r.win = e.win }

Least(x, y) == IF x < y THEN x ELSE y

\* The list of entry e of a view holds the newest rows of its entity, at
\* most MAX_MATCHES of them, the oldest of those first.
NewestOldestFirst(e) ==
  LET list == e.recentMatches
      n    == Len(list)
  IN  /\ n = Least(Cardinality(RowsOf(e.puuid)), MAX_MATCHES)
      /\ \A j \in 1 .. n :
           \E r \in RowFor(e.puuid, list[j]) : Newer(r) = n - j

\* C23: the leaderboard data.js sends lists for each entity at most 10
\* participations, those of its rows with the greatest played_at, the
\* oldest of them first; and the step that composes it makes no upstream
\* call (it leaves the cycle, the call counters and the upstream alone).
C23_Leaderboard ==
  [][ /\ view'.status = 200
           => \A k \in 1 .. Len(view'.players) :
                /\ Len(view'.players[k].recentMatches) <= 10
                /\ NewestOldestFirst(view'.players[k])
      /\ view' # view => UNCHANGED <<b, called, detailCalls, cycles, played>>
    ]_vars

\* Entity 1 has eleven stored participations and the leaderboard lists ten
\* of them, from the second oldest to the newest.
C23_Witness ==
  /\ view.status = 200
  /\ Cardinality(RowsOf(1)) = 11
  /\ Len(view.players[1].recentMatches) = 10
  /\ view.players[1].recentMatches[1].champ = 2
  /\ view.players[1].recentMatches[10].champ = 11

\* played_at of the row behind entry e of the list of p.
PlayedAt(p, e) == (CHOOSE r \in RowFor(p, e) : TRUE).played_at

\* C24 as stated: in the response view every list of recent participations
\* runs from the most recent to the least recent.
C24_NewestFirst ==
  \A k \in 1 .. Len(readPlayersFromDB) :
    LET e == readPlayersFromDB[k]
    IN  \A j \in 1 .. Len(e.recentMatches) - 1 :
          PlayedAt(e.puuid, e.recentMatches[j])
            > PlayedAt(e.puuid, e.recentMatches[j + 1])

\* C24: in the response view every list of recent participations runs from
\* the least recent of the participations it holds to the most recent,
\* which is the entity's newest stored participation.
C24_OldestFirst ==
  \A k \in 1 .. Len(readPlayersFromDB) :
    LET e == readPlayersFromDB[k]
        n == Len(e.recentMatches)
    IN  /\ \A j \in 1 .. n - 1 :
             PlayedAt(e.puuid, e.recentMatches[j])
               < PlayedAt(e.puuid, e.recentMatches[j + 1])
        /\ n > 0 => \A r \in RowsOf(e.puuid) :
                      r.played_at <= PlayedAt(e.puuid, e.recentMatches[n])

\* Entity 2 has two stored participations and the view that was sent lists
\* the older one first.
C24_Witness ==
  /\ view.status = 200 /\ view.players = readPlayersFromDB
  /\ Cardinality(RowsOf(2)) = 2
  /\ Len(view.players[2].recentMatches) = 2
  /\ view.players[2].recentMatches[1].champ = 1
  /\ view.players[2].recentMatches[2].champ = 2

\* The body of t's answer carries the freshness flags (an error body holds
\* the error message only).
Flagged(t) == resp[t].status = 200

\* t ran a cycle and the cycle returned.
BuiltIt(t) == "build" \in path[t] /\ "fallback" \notin path[t]

\* t answered from the fresh path, from the waiting path or from the catch
\* block.
ServedPersisted(t) == path[t] \cap {"fresh", "wait", "fallback"} # {}

\* C25 as stated: an answer carries cached = false exactly when the
\* invocation ran a cycle that returned; every answer from the fresh path,
\* the waiting path or the fallback path carries cached = true; and
\* stale = true is only on answers given after the invocation's own cycle
\* failed.
C25_Flags ==
  \A t \in Triggers :
    Answered(t)
      => /\ (Flagged(t) /\ ~resp[t].cached) <=> BuiltIt(t)
         /\ ServedPersisted(t) => (Flagged(t) /\ resp[t].cached)
         /\ resp[t].stale => "fallback" \in path[t]

\* C25: the same for the answers that carry a view; the only other answer
\* is the error of the fallback path, which carries neither flag.
C25_FlagsOfViews ==
  \A t \in Triggers :
    Answered(t)
      => /\ (Flagged(t) /\ ~resp[t].cached) <=> BuiltIt(t)
         /\ ServedPersisted(t)
              => IF Flagged(t) THEN resp[t].cached
                 ELSE /\ resp[t].status = 500 /\ "fallback" \in path[t]
                      /\ ~resp[t].cached /\ ~resp[t].stale
         /\ resp[t].stale => "fallback" \in path[t]

\* One invocation has answered from a cycle it completed (cached = false)
\* and the other after waiting for that cycle (cached = true, not stale).
C25_Witness ==
  \E t1, t2 \in Triggers :
    /\ Answered(t1) /\ BuiltIt(t1) /\ Flagged(t1) /\ ~resp[t1].cached
    /\ Answered(t2) /\ path[t2] = {"wait"} /\ Flagged(t2)
    /\ resp[t2].cached /\ ~resp[t2].stale

\* The positions of the cycle at which the next step is an upstream call,
\* and the steps that make one.
CallPcs == {"acc", "sum", "rank", "live", "mlist", "detail"}
Calling == b.pc \in CallPcs /\ b' # b

\* C26: the account call is made only for a roster entry that had no
\* players row when the cycle began.
C26_IdentitySkipped ==
  [][(b.pc = "acc" /\ b' # b) => b.i \notin DOMAIN b.prevByPuuid]_vars

\* C27: every upstream call of a cycle but the first is made after a
\* sleep(DELAY_MS) that followed the call before it.
C27_DelayBetweenCalls == [][Calling => b.delayed]_vars

\* The loop leaves roster entry b.i in this step, not through the catch.
EntityDone == b.i >= 1 /\ b'.i # b.i /\ b.i \notin b'.failed

\* The upstream reports more ranked games for the current entry than its
\* players row held when the cycle began.
TotalIncreased ==
  /\ b.i \in DOMAIN b.prevByPuuid
  /\ b.solo.wins + b.solo.losses > Total(b.prevByPuuid[b.i])

NewPlayerMatches == player_matches' \ player_matches

\* C30: the cycle is at one roster entry at a time and goes through the
\* roster in order, from each entry to the one after it, the last being
\* followed by the end of the cycle; and while it is at entry i every
\* upstream call is one of entry i, the players row and the history row it
\* writes are those of entry i, and no row is written for a later entry.
C30_OneAtATime ==
  [][ /\ (b.i >= 1 /\ b'.i # b.i)
           => IF b.i < NumPlayers THEN b'.i = b.i + 1 /\ b'.pc = "acc"
              ELSE b'.i = 0 /\ b'.pc = "final"
      /\ (b.pc = "prev" /\ b'.pc # "prev" /\ b'.pc # "none")
           => b'.i = 1 /\ b'.pc = "acc"
      /\ (Calling \/ players' # players \/ rank_history' # rank_history
            \/ NewPlayerMatches # {})
           => /\ b.i \in PLAYERS
              /\ \A q \in PLAYERS \ {b.i} :
                   /\ q \in DOMAIN players' <=> q \in DOMAIN players
                   /\ q \in DOMAIN players => players'[q] = players[q]
                   /\ rank_history'[q] = rank_history[q]
              /\ \A r \in NewPlayerMatches : r.puuid <= b.i
    ]_vars

\* The cycle is at entry 2 and about to write its row, after having written
\* the row of entry 1, a history row for it and its participation in a
\* match.
C30_Witness ==
  /\ b.i = 2 /\ b.pc = "upsert"
  /\ 1 \in b.upserted /\ 1 \in b.appended /\ 2 \notin b.upserted
  /\ \E r \in player_matches : r.puuid = 1
  /\ b.requests # <<>>

\* The entries of the list a cycle returns that are placeholders for roster
\* entry i: they carry the failure marker.
Placeholders(list, i) ==
  { k \in 1 .. Len(list) :
      "error" \in DOMAIN list[k] /\ list[k].puuid = i }

\* C31: when buildSnapshot returns, the list it returns holds a placeholder
\* for every roster entry whose processing failed in the cycle.
C31_Placeholder ==
  [][\A t \in Triggers :
       (Builder(t) /\ b.pc = "final" /\ pc'[t] = "idle")
         => \A i \in b.failed : Placeholders(readPlayersFromDB, i) # {}]_vars

\* The match list is requested in this step.
ListCall == b.pc = "mlist" /\ b' # b

Marked(id) == id \in DOMAIN matchCache /\ matchCache[id] = {}
C33_FailedNotRetried ==
  [][\A t \in MatchTriggers :
       (mq[t].pc = "idle" /\ mq'[t].pc = "get")
         => \A k \in 1 .. Len(mq'[t].missing) : ~Marked(mq'[t].missing[k])]_vars

\* ---- C34
\* The score of the persisted row of entity q.
StoredScore(q) == rankScore(players[q].tier, players[q].rank, players[q].lp)

\* Every persisted entity had its row before the cycle, and no score differs
\* from the one loaded at the start of the cycle.
ScoresUnchanged ==
  /\ DOMAIN players = DOMAIN mc.prevScores
  /\ \A q \in DOMAIN players : StoredScore(q) = mc.prevScores[q]

\* C34: a cycle in which every entity already has a persisted record and no
\* entity's score changes, entities whose processing failed included, emits
\* no milestone event of any kind; so a surpassed(A,B) of one cycle is not
\* emitted again by the next cycle when the scores are unchanged.
C34_QuietCycle ==
  (PassDone /\ ScoresUnchanged) => Len(milestones) = mc.before

\* The second cycle ends with unchanged scores after the first one emitted a
\* surpassed event, one of the entities having failed in the second.
C34_Witness ==
  /\ PassDone /\ ScoresUnchanged /\ cycles = 2
  /\ DOMAIN players = PLAYERS /\ mc.reconciled # PLAYERS
  /\ \E k \in 1 .. Len(milestones) : milestones[k].type = "surpassed"

\* ---- C39
\* surpassed(a, q) was emitted by the cycle under way.
SurpassedNow(a, q) ==
  \E k \in mc.before + 1 .. Len(milestones) :
    milestones[k] = Event("surpassed", a, q)

\* The entities persisted by the cycle under way for the first time.
NoPreScore == DOMAIN players \ DOMAIN mc.prevScores

\* C39: in surpassed detection an entity with no pre-cycle score counts as
\* having had the unranked sentinel score -1: as actor it emits surpassed
\* against every entity whose post-cycle score is below its own positive
\* post-cycle score, and as target it is surpassed only by actors whose
\* pre-cycle score was the sentinel too, or unknown.
C39_NoPreScore ==
  PassDone =>
    \A a \in NoPreScore : \A q \in DOMAIN players \ {a} :
      /\ (StoredScore(a) > StoredScore(q) /\ StoredScore(a) > 0)
           => SurpassedNow(a, q)
      /\ SurpassedNow(q, a)
           => (q \in NoPreScore \/ mc.prevScores[q] = -1)

\* A first-seen entity has overtaken one that was ranked before the cycle.
C39_Witness ==
  /\ PassDone
  /\ \E a \in NoPreScore : \E q \in DOMAIN mc.prevScores :
       mc.prevScores[q] > 0 /\ SurpassedNow(a, q)

\* ---- C35
\* The cycle under way has upserted the row of p and not yet decided on, or
\* inserted, its history row.
HistoryPending(p) == b.pc = "hist" /\ b.i = p

\* C35: starting from an empty store, whenever no history insert is pending
\* (so after any sequence of cycles), for every persisted entity any two
\* consecutive history rows have different scores, and the score of its most
\* recent history row is the score of its persisted tier, division and points.
C35_ChangeLog ==
  \A p \in DOMAIN players :
    ~HistoryPending(p) =>
      /\ Len(rank_history[p]) >= 1
      /\ rank_history[p][Len(rank_history[p])].score = StoredScore(p)
      /\ \A k \in 1 .. Len(rank_history[p]) - 1 :
           rank_history[p][k].score # rank_history[p][k + 1].score

\* The second cycle has processed both entities: the score of entity 1 was
\* the persisted one and no row was inserted, that of entity 2 had changed.
C35_Witness ==
  /\ b.pc = "final" /\ cycles = 2 /\ b.upserted = PLAYERS
  /\ b.appended = {2}
  /\ Len(rank_history[1]) = 1 /\ Len(rank_history[2]) = 2

\* ---- C36
\* The entities the cycle under way has persisted for the first time.
FirstSeen == b.upserted \ DOMAIN b.prevByPuuid

MatchPcs == {"mlist", "known", "detail", "mstore", "pm"}

\* C36: on the first successful observation of an entity (no persisted row
\* before the cycle) exactly one history row is appended, also when the
\* entity is unranked, and neither the match-id list nor a match detail is
\* requested for it in that cycle, whatever its wins and losses.
C36_FirstObservation ==
  \A p \in FirstSeen :
    /\ ~HistoryPending(p)
         => (p \in b.appended /\ Len(rank_history[p]) = 1)
    /\ b.i = p
         => /\ b.pc \notin MatchPcs
            /\ \A k \in 1 .. Len(b.calls) : b.calls[k] \notin {"list", "detail"}

\* Both entities were first seen by the cycle that is ending: one unranked,
\* the other with ranked games on record.
C36_Witness ==
  /\ b.pc = "final" /\ FirstSeen = PLAYERS
  /\ \E p \in PLAYERS : players[p].tier = NoTier
  /\ \E p \in PLAYERS : players[p].wins + players[p].losses > 0

\* ---- C37
\* The matches row a player_matches row refers to, if any.
MatchRowsOf(r) == { x \in matches : x.match_id = r.match_id }

\* C37: there is at most one player_matches row per (puuid, match id), and
\* every player_matches row refers to a match id present in matches whose
\* participant map holds that puuid with the same win flag, character and
\* kills, deaths and assists.
C37_PlayerMatchOfMatch ==
  /\ \A r1, r2 \in player_matches : SamePlayerMatch(r1, r2) => r1 = r2
  /\ \A r \in player_matches :
       \E x \in MatchRowsOf(r) :
         /\ r.puuid \in DOMAIN x.data
         /\ x.data[r.puuid] = [win |-> r.win, champ |-> r.champ, k |-> r.kills,
                               d |-> r.deaths, a |-> r.assists]

\* Two matches are stored, one of them with a row for each of its two
\* tracked participants.
C37_Witness ==
  /\ Cardinality(matches) = 2
  /\ \E m \in MatchIds :
       \A p \in PLAYERS : \E r \in player_matches : r.puuid = p /\ r.match_id = m

\* ---- C38
\* The cycle has found that the wins + losses of p have grown.
Detected(p) == b.pc = "mlist" /\ b.i = p

\* The match-id list of p has been fetched.
Listed(p) == b.pc = "known" /\ b.i = p

\* C38: every new game detected for an entity is eventually followed by a
\* successful match-id list fetch for it, in that cycle or a later one, when
\* cycles keep being triggered and the upstream calls succeed in the end,
\* even if the upstream counters do not increase any further.
C38_EventuallyListed ==
  \A p \in PLAYERS : Detected(p) ~> Listed(p)

\* ---- C40
\* The ids of the list fetched for target p.
ListedIds(p) == { bf.lists[p][k] : k \in 1 .. Len(bf.lists[p]) }

\* C40: after a backfill run in which no call failed, for every target and
\* every match id of the list fetched for it, the match is in matches and,
\* if its participant map holds the target, a player_matches row
\* (target, match id) exists, also when the match was stored before the run;
\* and no match that was already stored has had its details requested.
C40_Backfilled ==
  (bf.pc = "done" /\ ~bf.failed) =>
    /\ \A p \in PLAYERS : \A m \in ListedIds(p) :
         \E x \in matches :
           /\ x.match_id = m
           /\ p \in DOMAIN x.data
                => \E r \in player_matches : r.puuid = p /\ r.match_id = m
    /\ \A k \in 1 .. Len(bf.fetched) :
         /\ bf.fetched[k] \notin bf.before
         /\ \A n \in 1 .. k - 1 : bf.fetched[n] # bf.fetched[k]

\* The run has gone through without a failure: it has requested the details
\* of one match and has written the missing row of a match stored before it.
C40_Witness ==
  /\ bf.pc = "done" /\ ~bf.failed
  /\ Len(bf.fetched) = 1
  /\ \E r \in player_matches : r.match_id \in bf.before /\ r.played_at = clock

====
